---- MODULE Spec2Model ----
(***************************************************************************)
(* Model of the custom texture cache: the sharded TextureHashTable, the    *)
(* IOCP worker pool that loads textures into it, the swap table builder    *)
(* (BuildSwapTableEx) and the render-thread consumer (SwapTextures).       *)
(*                                                                         *)
(* Two specifications share the variables:                                 *)
(*   Spec      - the loading / rebuild / render pipeline.  Operations on   *)
(*               one bucket of the hash table are single steps there: the  *)
(*               code runs each of them entirely under that bucket's       *)
(*               critical section and takes no other lock inside it.       *)
(*   SpecTable - the hash table alone, with AddTexture, AddTexturePath and *)
(*               AddVolumeTexture split at every shared read and write, so *)
(*               that the bucket lock is what orders them.                 *)
(***************************************************************************)
EXTENDS Integers, Sequences, FiniteSets, TLC

\* ------------------------------------------------------------------ bounds
NumWorkers == 2      \* IOCP worker threads
MaxFrames  == 1      \* SwapTextures calls in one run
MaxInserts == 2      \* inserts per thread in SpecTable
MaxTPF     == 1      \* archive blobs posted in one run
HASH_TABLE_SIZE == 2 \* buckets (1024 in TextureHashTable.h:97)

\* ------------------------------------------------------- identifiers, ids
NULL    == 0
Ids     == 1..3                   \* 32-bit hashes in use; 0 is "no hash"
Workers == 1..NumWorkers
Reader  == 0                      \* the render thread
Host    == NumWorkers + 1         \* the thread that drives loading
Threads == Workers \cup {Reader, Host}
NoThread == -1
Buckets == 0..(HASH_TABLE_SIZE - 1)
Slots    == 1..3                  \* diffuse, normal, specular

\* g_validGameTextureHashes (GameTextureHashes.h), iterated by the first pass
ValidGameHashes == <<2>>
\* the hash -> path pairs ParseTexturePaths finds on disk: one file, for a
\* hash the game's list lacks
PathIds == {1}
\* the archive: one DDS blob whose filename encodes CRC32 3, and a texmod.def
\* that maps game hash 2 to CRC32 3
TPFIds == {3}
TexmodDef == [h \in {2} |-> 3]
\* the CRC32 cache loaded by CRC32Manager (game hash -> CRC32)
StaticCache == [h \in {2} |-> 3]
\* the same cache by CRC32: the game hashes of each CRC32, in load order
StaticCacheByCRC32 == [c \in {3} |-> <<2>>]
\* every posted request creates at most one texture and triggers at most
\* one rebuild
MaxHookCalls == 1    \* calls of HandleHookLoad in one run
\* a re-scan posts the paths once more; decodes beyond MaxTex fail
MaxTex    == Cardinality(PathIds) + MaxTPF + MaxHookCalls
MaxTables == Cardinality(PathIds) + MaxTPF
\* hashes the game asks for in one SwapTextures call (0 = wrapper absent)
FrameHashes == {<<1, 2, 0>>, <<2, 0, 0>>}
\* whether the material has the parameters SetMaterialTexture asks for
ParamOk == {[i \in 1..3 |-> TRUE], [i \in 1..3 |-> FALSE]}

TexIds   == 1..MaxTex
TableIds == 1..MaxTables

Locks == {<<"tex", b>> : b \in Buckets} \cup {<<"path", b>> : b \in Buckets}
         \cup {<<"vol", b>> : b \in Buckets}
         \cup {<<"swap">>, <<"crc32map">>, <<"rebuild">>, <<"mgr">>, <<"d3dx">>,
               <<"texmutex">>}

VARIABLES
    m_initialized,          \* TextureHashTable::m_initialized
    pathTable,              \* bucket -> chain of [hash, crc32Hash, path], head first
    textureTable,           \* bucket -> chain of [hash, texture], head first
    volumeTable,            \* bucket -> chain of [hash, texture], head first
    lockOwner,              \* critical section -> owning thread or NoThread
    refCount,               \* COM reference count of each texture (0 = destroyed / not created)
    nextTex,                \* textures created so far
    heap,                   \* swap table objects: [state, map]
    g_swapTable,            \* published swap table pointer (NULL or a table id)
    g_swapTableBuilt,       \* std::atomic<bool>
    g_pathsLoaded,          \* set once ParseTexturePaths has run
    g_gameHashToCRC32Map,   \* TPF game hash -> CRC32 map: [alloc, kv]; alloc FALSE is a null pointer
    m_gameHashToCRC32,      \* CRC32Manager reverse map
    queue,                  \* IOCP completion queue
    texturesLoaded, totalTexturesToLoad,
    tpfTexturesLoaded, totalTPFTexturesToLoad,
    pc,                     \* thread -> position
    job,                    \* worker -> request being processed
    wtex,                   \* worker -> texture it created
    rb,                     \* thread -> locals of its BuildSwapTableEx call
    rd,                     \* locals of the current SwapTextures call
    s_texPtr,               \* SwapTextures' persistent storage, one per slot
    frames,                 \* SwapTextures calls so far
    tb,                     \* thread -> locals of its hash table call (SpecTable)
    g_textureMap,           \* the Carbon loader's hash -> texture map (SpecTable)
    m_crc32ToGameHash,      \* CRC32Manager forward map: crc32 -> vector of game hashes
    m_cacheDirty,           \* CRC32Manager::m_cacheDirty
    tr,                     \* the last CRC32Manager call: [op, crc, name, res, found, n]
    g_texturePathMap,       \* the map-based loaders' hash -> path map
    g_volumeTextureMap,     \* the map-based loaders' hash -> volume texture map
    stopLoading,            \* std::atomic<bool>, the workers' stop flag
    iocp,                   \* the completion port and its worker threads exist
    globalDevice,           \* the device pointer StartIOCPLoading stored (NULL or a device)
    deviceRef,              \* COM reference count of each device
    wdev,                   \* per worker: the local "device" of the load in progress
    sd,                     \* locals of ShutdownWorkers: [posted, joined]
    tpf,                    \* TPFLoader::LoadTPFAndPostToIOCP: the archive, the loop
                            \* position, m_gameHashToCRC32, ddsEntriesPosted
    lastTextureCount,       \* static size_t of SetD3DDevice
    hookCallCount,          \* static int of HandleHookLoad
    pool,                   \* the worker pool being started: [loader, numCores,
                            \* numWorkerThreads, threads]
    lp,                     \* thread -> the lock operations its current call has
                            \* still to make
    sl                      \* locals of StartIOCPLoading: [phase, i, posted]

vars == <<g_pathsLoaded, m_initialized, pathTable, textureTable, volumeTable, lockOwner,
          refCount, nextTex, heap, g_swapTable, g_swapTableBuilt,
          g_gameHashToCRC32Map, m_gameHashToCRC32, queue,
          texturesLoaded, totalTexturesToLoad, tpfTexturesLoaded,
          totalTPFTexturesToLoad, pc, job, wtex, rb, rd, s_texPtr, frames, tb, g_textureMap,
          m_crc32ToGameHash, m_cacheDirty, tr, g_texturePathMap, g_volumeTextureMap,
          stopLoading, iocp, globalDevice, deviceRef, wdev, sd, tpf,
          lastTextureCount, hookCallCount, pool, lp, sl>>

tableVars  == <<m_initialized, pathTable, textureTable, volumeTable>>
swapVars   == <<heap, g_swapTable, g_swapTableBuilt>>
mapVars    == <<g_gameHashToCRC32Map, m_gameHashToCRC32>>
mgrVars    == <<m_crc32ToGameHash, m_cacheDirty, tr>>
carbonVars == <<g_texturePathMap, g_volumeTextureMap>>
stopVars   == <<stopLoading, iocp, globalDevice, deviceRef, wdev, sd>>
moreVars   == <<tpf, lastTextureCount, hookCallCount, pool, lp, sl>>
extVars    == <<mgrVars, carbonVars, moreVars, stopVars, moreVars>>
countVars  == <<texturesLoaded, totalTexturesToLoad, tpfTexturesLoaded,
                totalTPFTexturesToLoad>>
readerVars == <<rd, s_texPtr, frames>>

\* ------------------------------------------------------------- the table
GetBucketIndex(hash) == hash % HASH_TABLE_SIZE

\* the position of the first entry of a chain whose hash equals the
\* requested one, 0 when there is none (the while loops of the Get functions)
RECURSIVE FindFrom(_, _, _)
FindFrom(chain, hash, i) ==
    IF i > Len(chain) THEN 0
    ELSE IF chain[i].hash = hash THEN i
    ELSE FindFrom(chain, hash, i + 1)

\* the walk runs on to the oldest entry with the requested hash
FindEntryLast(chain, hash) ==
    LET S == {i \in 1..Len(chain) : chain[i].hash = hash}
    IN  IF S = {} THEN 0 ELSE CHOOSE i \in S : \A j \in S : j <= i

\* the walk stops at the bucket's first entry without comparing hashes
FindEntryFirst(chain, hash) == IF chain = <<>> THEN 0 ELSE 1

FindEntry(chain, hash) == FindFrom(chain, hash, 1)

GetTexture(hash) ==
    IF ~m_initialized THEN NULL
    ELSE LET chain == textureTable[GetBucketIndex(hash)]
             i == FindEntry(chain, hash)
         IN  IF i = 0 THEN NULL ELSE chain[i].texture

GetTexturePath(hash) ==
    IF ~m_initialized THEN NULL
    ELSE LET chain == pathTable[GetBucketIndex(hash)]
             i == FindEntry(chain, hash)
         IN  IF i = 0 THEN NULL ELSE chain[i].path

GetVolumeTexture(hash) ==
    IF ~m_initialized THEN NULL
    ELSE LET chain == volumeTable[GetBucketIndex(hash)]
             i == FindEntry(chain, hash)
         IN  IF i = 0 THEN NULL ELSE chain[i].texture

\* the new entry linked behind the chain instead of in front of it
LinkLast(entry, next) == next \o <<entry>>

\* newEntry->next = table[bucket]; table[bucket] = newEntry
Link(entry, next) == <<entry>> \o next

InsertHead(table, hash, entry) ==
    [table EXCEPT ![GetBucketIndex(hash)] = Link(entry, @)]

AddRef(rc, t)  == [rc EXCEPT ![t] = @ + 1]
Release(rc, t) == [rc EXCEPT ![t] = IF @ > 0 THEN @ - 1 ELSE 0]

LockFree(l) == lockOwner[l] = NoThread

\* ----------------------------------------------------------------- Init
EmptyMap == [h \in Ids |-> NULL]
NoJob    == [kind |-> "none", hash |-> 0]
NoRb     == [force |-> FALSE, new |-> NULL, old |-> NULL, i |-> 0, todo |-> {}, ret |-> "none"]
NoRd     == [hash |-> <<0, 0, 0>>, table |-> NULL, tex |-> <<NULL, NULL, NULL>>, slot |-> 0,
             built |-> FALSE]
NoTb     == [op |-> "none", hash |-> 0, val |-> NULL, next |-> <<>>, n |-> 0, done |-> 0,
             get |-> FALSE, res |-> NULL]

NoTr     == [op |-> "none", crc |-> 0, name |-> 0, res |-> 0, found |-> FALSE, n |-> 0]

Devices  == {1, 2}
NoTpf    == [phase |-> "idle", archive |-> <<>>, i |-> 0, map |-> <<>>,
             callback |-> FALSE, ddsEntriesPosted |-> 0, ret |-> 0]
NoSd     == [posted |-> 0, joined |-> {}]
NoSl     == [phase |-> "idle", i |-> 0, posted |-> 0]
NoPool   == [loader |-> "none", numCores |-> 0, numWorkerThreads |-> 0, threads |-> 0]

Init ==
    /\ g_pathsLoaded = FALSE
    /\ m_initialized = FALSE
    /\ pathTable = [b \in Buckets |-> <<>>]
    /\ textureTable = [b \in Buckets |-> <<>>]
    /\ volumeTable = [b \in Buckets |-> <<>>]
    /\ lockOwner = [l \in Locks |-> NoThread]
    /\ refCount = [t \in TexIds |-> 0]
    /\ nextTex = 0
    /\ heap = [p \in TableIds |-> [state |-> "free", map |-> EmptyMap]]
    /\ g_swapTable = NULL
    /\ g_swapTableBuilt = FALSE
    /\ g_gameHashToCRC32Map = [alloc |-> FALSE, kv |-> <<>>]
    /\ m_gameHashToCRC32 = <<>>
    /\ queue = <<>>
    /\ texturesLoaded = 0
    /\ totalTexturesToLoad = 0
    /\ tpfTexturesLoaded = 0
    /\ totalTPFTexturesToLoad = 0
    /\ pc = [th \in Threads |-> IF th \in Workers THEN "w_idle"
                                ELSE IF th = Reader THEN "r_idle" ELSE "h_idle"]
    /\ job = [w \in Workers |-> NoJob]
    /\ wtex = [w \in Workers |-> NULL]
    /\ rb = [th \in Threads |-> NoRb]
    /\ rd = NoRd
    /\ s_texPtr = <<NULL, NULL, NULL>>
    /\ frames = 0
    /\ tb = [th \in Threads |-> NoTb]
    /\ g_textureMap = <<>>
    /\ m_crc32ToGameHash = <<>>
    /\ m_cacheDirty = FALSE
    /\ tr = NoTr
    /\ g_texturePathMap = <<>>
    /\ g_volumeTextureMap = <<>>
    /\ stopLoading = FALSE
    /\ iocp = FALSE
    /\ globalDevice = NULL
    /\ deviceRef = [d \in Devices |-> 1]
    /\ wdev = [w \in Workers |-> NULL]
    /\ sd = NoSd
    /\ tpf = NoTpf
    /\ lastTextureCount = 0
    /\ hookCallCount = 0
    /\ pool = NoPool
    /\ lp = [th \in Threads |-> <<>>]
    /\ sl = NoSl

\* ------------------------------------------------- hash table operations
\* TextureHashTable::AddTexturePath
AddTexturePath(pt, hash, path) ==
    IF ~m_initialized THEN pt
    ELSE InsertHead(pt, hash, [hash |-> hash, crc32Hash |-> 0, path |-> path])

RECURSIVE AddTexturePathAll(_, _)
AddTexturePathAll(pt, hashes) ==
    IF hashes = {} THEN pt
    ELSE LET h == CHOOSE x \in hashes : \A y \in hashes : x <= y
         IN  AddTexturePathAll(AddTexturePath(pt, h, h), hashes \ {h})

\* AddTexture without its AddRef
AddTextureNoRef(tt, rc, hash, texture) ==
    IF ~m_initialized \/ texture = NULL THEN <<tt, rc>>
    ELSE <<InsertHead(tt, hash, [hash |-> hash, texture |-> texture]), rc>>

\* TextureHashTable::AddTexture; a null texture is ignored
AddTexture(tt, rc, hash, texture) ==
    IF ~m_initialized \/ texture = NULL THEN <<tt, rc>>
    ELSE <<InsertHead(tt, hash, [hash |-> hash, texture |-> texture]),
           AddRef(rc, texture)>>

\* AddTexture for every hash of a sequence, in order
RECURSIVE AddTextureAll(_, _, _, _)
AddTextureAll(tt, rc, hashes, texture) ==
    IF hashes = <<>> THEN <<tt, rc>>
    ELSE LET r == AddTexture(tt, rc, Head(hashes), texture)
         IN  AddTextureAll(r[1], r[2], Tail(hashes), texture)

\* TextureHashTable::SetCRC32Hash: the first entry with that hash gets the CRC32
RECURSIVE SetFirst(_, _, _)
SetFirst(chain, hash, crc) ==
    IF chain = <<>> THEN <<>>
    ELSE IF Head(chain).hash = hash
         THEN <<[Head(chain) EXCEPT !.crc32Hash = crc]>> \o Tail(chain)
         ELSE <<Head(chain)>> \o SetFirst(Tail(chain), hash, crc)

SetCRC32Hash(pt, hash, crc) ==
    IF ~m_initialized THEN pt
    ELSE [pt EXCEPT ![GetBucketIndex(hash)] = SetFirst(@, hash, crc)]

RECURSIVE SumLen(_, _)
SumLen(table, b) ==
    IF b = HASH_TABLE_SIZE THEN 0 ELSE Len(table[b]) + SumLen(table, b + 1)

CountTexturePaths == IF ~m_initialized THEN 0 ELSE SumLen(pathTable, 0)

\* the entries ForEachTexturePath visits: bucket by bucket, each chain head first
RECURSIVE AllPaths(_)
AllPaths(b) ==
    IF b = HASH_TABLE_SIZE THEN <<>> ELSE pathTable[b] \o AllPaths(b + 1)

\* TextureHashTable::Cleanup on one chain: every texture is released and
\* its entry's pointer nulled
RECURSIVE ReleaseChain(_, _)
ReleaseChain(chain, rc) ==
    IF chain = <<>> THEN rc
    ELSE ReleaseChain(Tail(chain),
                      IF Head(chain).texture # NULL
                      THEN Release(rc, Head(chain).texture) ELSE rc)

NullChain(chain) == [i \in 1..Len(chain) |-> [chain[i] EXCEPT !.texture = NULL]]

RECURSIVE ReleaseTable(_, _, _)
ReleaseTable(table, rc, b) ==
    IF b = HASH_TABLE_SIZE THEN rc
    ELSE ReleaseTable(table, ReleaseChain(table[b], rc), b + 1)

\* ------------------------------------------------------------ the host
\* TextureHashTable::Initialize, CRC32Manager::Initialize and LoadCache
HostInitialize ==
    /\ pc[Host] = "h_idle" /\ ~m_initialized
    /\ m_initialized' = TRUE
    /\ m_gameHashToCRC32' = StaticCache
    /\ m_crc32ToGameHash' = StaticCacheByCRC32
    /\ pc' = [pc EXCEPT ![Host] = "h_run"]
    /\ UNCHANGED <<g_pathsLoaded, pathTable, textureTable, volumeTable, lockOwner,
                   refCount, nextTex, swapVars, g_gameHashToCRC32Map, queue,
                   countVars, job, wtex, rb, readerVars, tb, g_textureMap,
                   m_cacheDirty, tr, carbonVars, stopVars, moreVars>>

\* paths::ParseTexturePaths: one AddTexturePath per file found
HostParsePathsOf(ids) ==
    /\ pc[Host] = "h_run" /\ m_initialized /\ ~g_pathsLoaded
    /\ \A b \in Buckets : LockFree(<<"path", b>>)
    /\ pathTable' = AddTexturePathAll(pathTable, ids)
    /\ g_pathsLoaded' = TRUE
    /\ UNCHANGED <<m_initialized, textureTable, volumeTable, lockOwner, refCount,
                   nextTex, swapVars, mapVars, queue, countVars, pc, job, wtex,
                   rb, readerVars, tb, g_textureMap, extVars>>

FileJobs(entries) == [i \in 1..Len(entries) |-> [kind |-> "file", hash |-> entries[i].hash]]

\* async::StartIOCPLoading
HostStartIOCPLoading ==
    /\ pc[Host] = "h_run" /\ g_pathsLoaded /\ totalTexturesToLoad = 0
    /\ \A b \in Buckets : LockFree(<<"path", b>>)
    /\ texturesLoaded' = 0
    /\ totalTexturesToLoad' = CountTexturePaths
    /\ queue' = IF CountTexturePaths = 0 THEN queue ELSE queue \o FileJobs(AllPaths(0))
    /\ UNCHANGED <<g_pathsLoaded, tableVars, lockOwner, refCount, nextTex, swapVars,
                   mapVars, tpfTexturesLoaded, totalTPFTexturesToLoad, pc, job,
                   wtex, rb, readerVars, tb, g_textureMap, extVars>>

\* the archive's texmod.def is stored in the game hash <-> CRC32 maps before
\* any of its blobs is posted
HostStoreManifest ==
    /\ pc[Host] = "h_run" /\ g_pathsLoaded /\ ~g_gameHashToCRC32Map.alloc /\ totalTPFTexturesToLoad = 0
    /\ LockFree(<<"crc32map">>)
    /\ g_gameHashToCRC32Map' = [alloc |-> TRUE, kv |-> TexmodDef]
    /\ UNCHANGED <<g_pathsLoaded, tableVars, lockOwner, refCount, nextTex, swapVars,
                   m_gameHashToCRC32, queue, countVars, pc, job, wtex, rb,
                   readerVars, tb, g_textureMap, extVars>>

\* async::PostTPFRequest for one blob of the archive, counted in the TPF total
HostPostTPFRequest(crc) ==
    /\ pc[Host] = "h_run" /\ g_pathsLoaded /\ totalTPFTexturesToLoad < MaxTPF
    /\ totalTPFTexturesToLoad' = totalTPFTexturesToLoad + 1
    /\ queue' = Append(queue, [kind |-> "tpf", hash |-> crc])
    /\ UNCHANGED <<g_pathsLoaded, tableVars, lockOwner, refCount, nextTex, swapVars,
                   mapVars, texturesLoaded, totalTexturesToLoad, tpfTexturesLoaded,
                   pc, job, wtex, rb, readerVars, tb, g_textureMap, extVars>>

\* the feature is disabled: the workers are stopped and joined (requests
\* queued before the wake-up packets are served first), the swap hook is
\* removed, then TextureHashTable::Cleanup releases every texture
HostCleanup ==
    /\ pc[Host] = "h_run" /\ m_initialized
    /\ queue = <<>> /\ \A w \in Workers : pc[w] = "w_idle"
    /\ pc[Reader] = "r_idle"
    /\ \A b \in Buckets : LockFree(<<"tex", b>>) /\ LockFree(<<"vol", b>>)
    /\ refCount' = ReleaseTable(volumeTable, ReleaseTable(textureTable, refCount, 0), 0)
    /\ textureTable' = [b \in Buckets |-> NullChain(textureTable[b])]
    /\ volumeTable' = [b \in Buckets |-> NullChain(volumeTable[b])]
    /\ pc' = [pc EXCEPT ![Host] = "h_done"]
    /\ UNCHANGED <<g_pathsLoaded, m_initialized, pathTable, lockOwner, nextTex,
                   swapVars, mapVars, queue, countVars, job, wtex, rb,
                   readerVars, tb, g_textureMap, extVars>>

\* --------------------------------------------------------- IOCP workers
\* the game hashes crc32ToGameHashMap lists for a CRC32, in ascending order
RECURSIVE SetToSeq(_)
SetToSeq(S) ==
    IF S = {} THEN <<>>
    ELSE LET h == CHOOSE x \in S : \A y \in S : x <= y
         IN  <<h>> \o SetToSeq(S \ {h})

Crc32ToGameHashes(crc) ==
    SetToSeq({g \in DOMAIN g_gameHashToCRC32Map.kv : g_gameHashToCRC32Map.kv[g] = crc})

\* CRC32Manager::CalculateTexmodHash of a decoded file: the CRC32 of its pixels
CalculateTexmodHash(hash) == 3

\* GetQueuedCompletionStatus hands the worker the next request and
\* D3DXCreateTextureFromFile(InMemory) under d3dxMutex succeeds: the new
\* texture has one reference; a file request also records its CRC32
WorkerDecodeOk(w) ==
    /\ pc[w] = "w_idle" /\ queue # <<>>
    /\ \A v \in Workers : v < w => pc[v] # "w_idle"
    /\ LockFree(<<"d3dx">>) /\ nextTex < MaxTex
    /\ job' = [job EXCEPT ![w] = Head(queue)]
    /\ queue' = Tail(queue)
    /\ nextTex' = nextTex + 1
    /\ wtex' = [wtex EXCEPT ![w] = nextTex + 1]
    /\ refCount' = [refCount EXCEPT ![nextTex + 1] = 1]
    /\ pathTable' = IF Head(queue).kind = "file"
                    THEN SetCRC32Hash(pathTable, Head(queue).hash,
                                      CalculateTexmodHash(Head(queue).hash))
                    ELSE pathTable
    /\ pc' = [pc EXCEPT ![w] = "w_add"]
    /\ UNCHANGED <<g_pathsLoaded, m_initialized, textureTable, volumeTable, lockOwner,
                   swapVars, mapVars, countVars, rb, readerVars, tb, g_textureMap, extVars>>

\* the decode fails: the request is logged and dropped
WorkerDecodeFail(w) ==
    /\ pc[w] = "w_idle" /\ queue # <<>>
    /\ \A v \in Workers : v < w => pc[v] # "w_idle"
    /\ LockFree(<<"d3dx">>)
    /\ queue' = Tail(queue)
    /\ UNCHANGED <<g_pathsLoaded, tableVars, lockOwner, refCount, nextTex, swapVars,
                   mapVars, countVars, pc, job, wtex, rb, readerVars, tb, g_textureMap, extVars>>

HostParsePaths == HostParsePathsOf(PathIds)

\* the worker goes on to the counters without the AddTexture call
WorkerAddTextureSkip(w) ==
    /\ pc[w] = "w_add" /\ LockFree(<<"tex", GetBucketIndex(job[w].hash)>>)
    /\ pc' = [pc EXCEPT ![w] = IF job[w].kind = "tpf" THEN "w_mapped" ELSE "w_count"]
    /\ UNCHANGED <<g_pathsLoaded, tableVars, refCount, lockOwner,
                   nextTex, swapVars, mapVars, queue, countVars, job, wtex, rb,
                   readerVars, tb, g_textureMap, extVars>>

\* (*ctx.hashTable)->AddTexture(req->hash, texture)
WorkerAddTexture(w) ==
    /\ pc[w] = "w_add" /\ LockFree(<<"tex", GetBucketIndex(job[w].hash)>>)
    /\ LET r == AddTexture(textureTable, refCount, job[w].hash, wtex[w])
       IN  textureTable' = r[1] /\ refCount' = r[2]
    /\ pc' = [pc EXCEPT ![w] = IF job[w].kind = "tpf" THEN "w_mapped" ELSE "w_count"]
    /\ UNCHANGED <<g_pathsLoaded, m_initialized, pathTable, volumeTable, lockOwner,
                   nextTex, swapVars, mapVars, queue, countVars, job, wtex, rb,
                   readerVars, tb, g_textureMap, extVars>>

\* under crc32MapLock: AddTexture under every game hash mapped to the CRC32
WorkerAddMapped(w) ==
    /\ pc[w] = "w_mapped" /\ LockFree(<<"crc32map">>)
    /\ \A b \in Buckets : LockFree(<<"tex", b>>)
    /\ LET hs == IF g_gameHashToCRC32Map.alloc THEN Crc32ToGameHashes(job[w].hash) ELSE <<>>
           r  == AddTextureAll(textureTable, refCount, hs, wtex[w])
       IN  textureTable' = r[1] /\ refCount' = r[2]
    /\ pc' = [pc EXCEPT ![w] = "w_tpfcount"]
    /\ UNCHANGED <<g_pathsLoaded, m_initialized, pathTable, volumeTable, lockOwner,
                   nextTex, swapVars, mapVars, queue, countVars, job, wtex, rb,
                   readerVars, tb, g_textureMap, extVars>>

\* ------------------------------------------------------ BuildSwapTableEx
\* the host passes &g_swapTableLock as swapLock
swapLock == TRUE

Call(th, force, ret) == [NoRb EXCEPT !.force = force, !.ret = ret]

\* the value fetch_add returns is compared without the + 1
WorkerCountFileStale(w) ==
    /\ pc[w] = "w_count"
    /\ texturesLoaded' = texturesLoaded + 1
    /\ IF texturesLoaded = totalTexturesToLoad
       THEN /\ pc' = [pc EXCEPT ![w] = "b_check"]
            /\ rb' = [rb EXCEPT ![w] = Call(w, FALSE, "w_idle")]
       ELSE /\ pc' = [pc EXCEPT ![w] = "w_idle"]
            /\ rb' = rb
    /\ job' = [job EXCEPT ![w] = NoJob]
    /\ wtex' = [wtex EXCEPT ![w] = NULL]
    /\ UNCHANGED <<g_pathsLoaded, tableVars, lockOwner, refCount, nextTex, swapVars,
                   mapVars, queue, totalTexturesToLoad, tpfTexturesLoaded,
                   totalTPFTexturesToLoad, readerVars, tb, g_textureMap, extVars>>

\* file request done: count it; the last one builds the swap table
WorkerCountFile(w) ==
    /\ pc[w] = "w_count"
    /\ texturesLoaded' = texturesLoaded + 1
    /\ IF texturesLoaded + 1 = totalTexturesToLoad
       THEN /\ pc' = [pc EXCEPT ![w] = "b_check"]
            /\ rb' = [rb EXCEPT ![w] = Call(w, FALSE, "w_idle")]
       ELSE /\ pc' = [pc EXCEPT ![w] = "w_idle"]
            /\ rb' = rb
    /\ job' = [job EXCEPT ![w] = NoJob]
    /\ wtex' = [wtex EXCEPT ![w] = NULL]
    /\ UNCHANGED <<g_pathsLoaded, tableVars, lockOwner, refCount, nextTex, swapVars,
                   mapVars, queue, totalTexturesToLoad, tpfTexturesLoaded,
                   totalTPFTexturesToLoad, readerVars, tb, g_textureMap, extVars>>

\* TPF request done: under rebuildLock count it; the last one forces a rebuild
WorkerCountTPF(w) ==
    /\ pc[w] = "w_tpfcount" /\ LockFree(<<"rebuild">>)
    /\ lockOwner' = [lockOwner EXCEPT ![<<"rebuild">>] = w]
    /\ texturesLoaded' = texturesLoaded + 1
    /\ tpfTexturesLoaded' = tpfTexturesLoaded + 1
    /\ IF tpfTexturesLoaded + 1 = totalTPFTexturesToLoad /\ totalTPFTexturesToLoad > 0
       THEN /\ pc' = [pc EXCEPT ![w] = "b_check"]
            /\ rb' = [rb EXCEPT ![w] = Call(w, TRUE, "w_tpfdone")]
       ELSE /\ pc' = [pc EXCEPT ![w] = "w_tpfdone"]
            /\ rb' = rb
    /\ job' = [job EXCEPT ![w] = NoJob]
    /\ wtex' = [wtex EXCEPT ![w] = NULL]
    /\ UNCHANGED <<g_pathsLoaded, tableVars, refCount, nextTex, swapVars, mapVars,
                   queue, totalTexturesToLoad, totalTPFTexturesToLoad, readerVars, tb, g_textureMap, extVars>>

WorkerTPFDone(w) ==
    /\ pc[w] = "w_tpfdone"
    /\ lockOwner' = [lockOwner EXCEPT ![<<"rebuild">>] = NoThread]
    /\ pc' = [pc EXCEPT ![w] = "w_idle"]
    /\ UNCHANGED <<g_pathsLoaded, tableVars, refCount, nextTex, swapVars, mapVars,
                   queue, countVars, job, wtex, rb, readerVars, tb, g_textureMap, extVars>>

Return(th) ==
    /\ pc' = [pc EXCEPT ![th] = rb[th].ret]
    /\ rb' = [rb EXCEPT ![th] = NoRb]

\* line 13: already built and not forced
BuildCheck(th) ==
    /\ pc[th] = "b_check"
    /\ IF g_swapTableBuilt /\ ~rb[th].force
       THEN Return(th)
       ELSE pc' = [pc EXCEPT ![th] = "b_new"] /\ rb' = rb
    /\ UNCHANGED <<g_pathsLoaded, tableVars, lockOwner, refCount, nextTex, swapVars,
                   mapVars, queue, countVars, job, wtex, readerVars, tb, g_textureMap, extVars>>

FreeTables == {p \in TableIds : heap[p].state = "free"}

\* the new table published as soon as it is allocated
BuildNewPublishEarly(th) ==
    /\ pc[th] = "b_new" /\ FreeTables # {}
    /\ LET p == CHOOSE x \in FreeTables : \A y \in FreeTables : x <= y
       IN  /\ heap' = [heap EXCEPT ![p] = [state |-> "live", map |-> EmptyMap]]
           /\ g_swapTable' = p
           /\ rb' = [rb EXCEPT ![th].new = p, ![th].old = g_swapTable, ![th].i = 1]
    /\ pc' = [pc EXCEPT ![th] = IF ValidGameHashes = <<>> THEN "b_pass2" ELSE "b_pass1"]
    /\ UNCHANGED <<g_pathsLoaded, tableVars, lockOwner, refCount, nextTex,
                   g_swapTableBuilt, mapVars, queue, countVars, job,
                   wtex, readerVars, tb, g_textureMap, extVars>>

\* the publish lock entered before the new table is allocated
BuildNewUnderLock(th) ==
    /\ pc[th] = "b_new" /\ FreeTables # {} /\ LockFree(<<"swap">>)
    /\ LET p == CHOOSE x \in FreeTables : \A y \in FreeTables : x <= y
       IN  /\ heap' = [heap EXCEPT ![p] = [state |-> "live", map |-> EmptyMap]]
           /\ rb' = [rb EXCEPT ![th].new = p, ![th].old = g_swapTable, ![th].i = 1]
    /\ lockOwner' = [lockOwner EXCEPT ![<<"swap">>] = th]
    /\ pc' = [pc EXCEPT ![th] = IF ValidGameHashes = <<>> THEN "b_pass2" ELSE "b_pass1"]
    /\ UNCHANGED <<g_pathsLoaded, tableVars, refCount, nextTex,
                   g_swapTable, g_swapTableBuilt, mapVars, queue, countVars, job,
                   wtex, readerVars, tb, g_textureMap, extVars>>

\* lines 21-43: allocate the new table, remember the published one
BuildNew(th) ==
    /\ pc[th] = "b_new" /\ FreeTables # {}
    /\ LET p == CHOOSE x \in FreeTables : \A y \in FreeTables : x <= y
       IN  /\ heap' = [heap EXCEPT ![p] = [state |-> "live", map |-> EmptyMap]]
           /\ rb' = [rb EXCEPT ![th].new = p, ![th].old = g_swapTable, ![th].i = 1]
    /\ pc' = [pc EXCEPT ![th] = IF ValidGameHashes = <<>> THEN "b_pass2" ELSE "b_pass1"]
    /\ UNCHANGED <<g_pathsLoaded, tableVars, lockOwner, refCount, nextTex,
                   g_swapTable, g_swapTableBuilt, mapVars, queue, countVars, job,
                   wtex, readerVars, tb, g_textureMap, extVars>>

\* lines 57-62 and 111-116: AddRef, Release, AddRef, store: one reference
\* is kept for the new table's entry
TakeNoRef(h, rc, p, gameHash, texture) ==
    <<[h EXCEPT ![p].map[gameHash] = texture], rc>>

\* the entry written into the published table when there is one
TakeInPlace(h, rc, p, gameHash, texture) ==
    <<[h EXCEPT ![IF g_swapTable # NULL THEN g_swapTable ELSE p].map[gameHash] = texture],
      AddRef(rc, texture)>>

Take(h, rc, p, gameHash, texture) ==
    <<[h EXCEPT ![p].map[gameHash] = texture], AddRef(rc, texture)>>

\* lines 52-76: one valid game hash of the first pass
BuildPass1(th) ==
    /\ pc[th] = "b_pass1"
    /\ LET gameHash == ValidGameHashes[rb[th].i]
           texture  == GetTexture(gameHash)
           r == Take(heap, refCount, rb[th].new, gameHash, texture)
       IN  /\ LockFree(<<"tex", GetBucketIndex(gameHash)>>)
           /\ heap' = IF texture # NULL THEN r[1] ELSE heap
           /\ refCount' = IF texture # NULL THEN r[2] ELSE refCount
    /\ rb' = [rb EXCEPT ![th].i = @ + 1]
    /\ pc' = [pc EXCEPT ![th] = IF rb[th].i = Len(ValidGameHashes)
                                THEN "b_pass2" ELSE "b_pass1"]
    /\ UNCHANGED <<g_pathsLoaded, tableVars, lockOwner, nextTex, g_swapTable,
                   g_swapTableBuilt, mapVars, queue, countVars, job, wtex,
                   readerVars, tb, g_textureMap, extVars>>

\* lines 87-127: every pair of the map that the first pass left out and
\* whose texture is loaded under its game hash or, failing that, its CRC32
RECURSIVE Pass2(_, _, _, _)
Pass2(h, rc, p, todo) ==
    IF todo = {} THEN <<h, rc>>
    ELSE LET gameHash == CHOOSE x \in todo : \A y \in todo : x <= y
             crc32    == g_gameHashToCRC32Map.kv[gameHash]
             byHash   == GetTexture(gameHash)
             texture  == IF byHash = NULL /\ crc32 # 0 THEN GetTexture(crc32) ELSE byHash
             r == IF h[p].map[gameHash] = NULL /\ texture # NULL
                  THEN Take(h, rc, p, gameHash, texture)
                  ELSE <<h, rc>>
         IN  Pass2(r[1], r[2], p, todo \ {gameHash})

\* lines 84-128: the second pass, under crc32MapLock when the map exists
BuildPass2(th) ==
    /\ pc[th] = "b_pass2"
    /\ IF g_gameHashToCRC32Map.alloc
       THEN /\ LockFree(<<"crc32map">>)
            /\ \A b \in Buckets : LockFree(<<"tex", b>>)
            /\ LET r == Pass2(heap, refCount, rb[th].new, DOMAIN g_gameHashToCRC32Map.kv)
               IN  heap' = r[1] /\ refCount' = r[2]
       ELSE UNCHANGED <<heap, refCount>>
    /\ pc' = [pc EXCEPT ![th] = "b_lock"]
    /\ UNCHANGED <<g_pathsLoaded, tableVars, lockOwner, nextTex, g_swapTable,
                   g_swapTableBuilt, mapVars, queue, countVars, job, wtex, rb,
                   readerVars, tb, g_textureMap, extVars>>

\* the textures a swap table holds a reference on, released one by one
RECURSIVE ReleaseMap(_, _, _)
ReleaseMap(map, rc, hs) ==
    IF hs = {} THEN rc
    ELSE LET h == CHOOSE x \in hs : TRUE
         IN  ReleaseMap(map, IF map[h] # NULL THEN Release(rc, map[h]) ELSE rc, hs \ {h})

\* lines 143-155 without the EnterCriticalSection: the check and the swap
\* run whoever owns the publish lock
BuildSwapNoLock(th) ==
    /\ pc[th] = "b_lock"
    /\ IF rb[th].old # NULL /\ heap[rb[th].new].map = EmptyMap
       THEN /\ heap' = [heap EXCEPT ![rb[th].new].state = "deleted"]
            /\ Return(th)
            /\ UNCHANGED g_swapTable
       ELSE /\ g_swapTable' = rb[th].new
            /\ pc' = [pc EXCEPT ![th] = "b_built"]
            /\ UNCHANGED <<heap, rb>>
    /\ UNCHANGED <<g_pathsLoaded, tableVars, lockOwner, refCount, nextTex, g_swapTableBuilt,
                   mapVars, queue, countVars, job, wtex, readerVars, tb, g_textureMap, extVars>>

\* lines 143-155: enter the lock; an empty new table is discarded when an
\* old one exists, otherwise the new table is published
BuildSwap(th) ==
    /\ pc[th] = "b_lock"
    /\ swapLock => LockFree(<<"swap">>)
    /\ IF rb[th].old # NULL /\ heap[rb[th].new].map = EmptyMap
       THEN /\ heap' = [heap EXCEPT ![rb[th].new].state = "deleted"]
            /\ Return(th)
            /\ UNCHANGED <<lockOwner, g_swapTable>>
       ELSE /\ lockOwner' = IF swapLock THEN [lockOwner EXCEPT ![<<"swap">>] = th]
                            ELSE lockOwner
            /\ g_swapTable' = rb[th].new
            /\ pc' = [pc EXCEPT ![th] = "b_built"]
            /\ UNCHANGED <<heap, rb>>
    /\ UNCHANGED <<g_pathsLoaded, tableVars, refCount, nextTex, g_swapTableBuilt,
                   mapVars, queue, countVars, job, wtex, readerVars, tb, g_textureMap, extVars>>

\* lines 156-170: set the flag, release the old table's textures, delete the
\* old table, leave the lock.  An old table that another rebuild already
\* deleted is read after free: its stale entries are released again, or
\* nothing is found there
BuildRelease(th) ==
    /\ pc[th] = "b_built"
    /\ g_swapTableBuilt' = TRUE
    /\ IF rb[th].old # NULL
       THEN /\ \E stale \in BOOLEAN :
                 /\ (heap[rb[th].old].state = "live") => stale
                 /\ refCount' = IF stale
                                THEN ReleaseMap(heap[rb[th].old].map, refCount, Ids)
                                ELSE refCount
            /\ heap' = [heap EXCEPT ![rb[th].old].state = "deleted"]
       ELSE UNCHANGED <<refCount, heap>>
    /\ lockOwner' = IF swapLock THEN [lockOwner EXCEPT ![<<"swap">>] = NoThread]
                    ELSE lockOwner
    /\ Return(th)
    /\ UNCHANGED <<g_pathsLoaded, tableVars, nextTex, g_swapTable,
                   mapVars, queue, countVars, job, wtex, readerVars, tb, g_textureMap, extVars>>

\* ---------------------------------------------------------- SwapTextures
\* CRC32Manager::GetCRC32ByGameHash
GetCRC32ByGameHash(gameHash) ==
    IF gameHash \in DOMAIN m_gameHashToCRC32 THEN m_gameHashToCRC32[gameHash] ELSE 0

\* the next slot whose hash is not 0, 4 when there is none
RECURSIVE NextSlot(_, _)
NextSlot(hs, slot) ==
    IF slot >= 3 THEN 4
    ELSE IF hs[slot + 1] # 0 THEN slot + 1
    ELSE NextSlot(hs, slot + 1)

\* lines 117-159: the frame's hashes are read from the game's wrappers and
\* g_swapTableBuilt is loaded
ReaderBegin ==
    /\ pc[Reader] = "r_idle" /\ pc[Host] = "h_run"
    /\ g_pathsLoaded /\ frames < MaxFrames
    /\ \E hs \in FrameHashes :
         rd' = [NoRd EXCEPT !.hash = hs, !.built = g_swapTableBuilt, !.slot = NextSlot(hs, 0)]
    /\ frames' = frames + 1
    /\ pc' = [pc EXCEPT ![Reader] = IF g_swapTableBuilt THEN "r_enter" ELSE "r_slot"]
    /\ UNCHANGED <<g_pathsLoaded, tableVars, lockOwner, refCount, nextTex, swapVars,
                   mapVars, queue, countVars, job, wtex, rb, s_texPtr, tb, g_textureMap, extVars>>

\* lines 162-164 without the EnterCriticalSection
ReaderEnterNoLock ==
    /\ pc[Reader] = "r_enter"
    /\ lockOwner' = lockOwner
    /\ rd' = [rd EXCEPT !.table = g_swapTable]
    /\ pc' = [pc EXCEPT ![Reader] = IF g_swapTable = NULL THEN "r_apply" ELSE "r_slot"]

\* lines 162-164: enter the lock and read the published pointer; a null
\* pointer leaves the lock at once (line 285)
ReaderEnterLock ==
    /\ pc[Reader] = "r_enter" /\ LockFree(<<"swap">>)
    /\ lockOwner' = IF g_swapTable = NULL THEN lockOwner
                    ELSE [lockOwner EXCEPT ![<<"swap">>] = Reader]
    /\ rd' = [rd EXCEPT !.table = g_swapTable]
    /\ pc' = [pc EXCEPT ![Reader] = IF g_swapTable = NULL THEN "r_apply" ELSE "r_slot"]

ReaderEnter ==
    /\ ReaderEnterLock
    /\ UNCHANGED <<g_pathsLoaded, tableVars, refCount, nextTex, swapVars, mapVars,
                   queue, countVars, job, wtex, rb, s_texPtr, frames, tb, g_textureMap, extVars>>

\* the texture the fallback of lines 177-193 finds for a hash missing from
\* the swap table, and whether it was found through the CRC32 cache
\* the hash table is asked under the hash only
FallbackDirectOnly(hash) == [tex |-> GetTexture(hash), viaCRC |-> FALSE]

Fallback(hash) ==
    LET byHash == GetTexture(hash)
        crc    == GetCRC32ByGameHash(hash)
        byCRC  == IF crc # 0 THEN GetTexture(crc) ELSE NULL
    IN  IF byHash # NULL THEN [tex |-> byHash, viaCRC |-> FALSE]
        ELSE [tex |-> byCRC, viaCRC |-> byCRC # NULL]

\* lines 166-285: one slot under the lock, the last one leaves the lock;
\* lines 290-311: one slot before the table is built, where the CRC32 cache
\* is asked only when the game has a texture in the slot, and nothing is
\* AddRef'd or stored
ReaderSlot ==
    /\ pc[Reader] = "r_slot"
    /\ \A b \in Buckets : LockFree(<<"tex", b>>)
    /\ LockFree(<<"mgr">>)
    /\ \E gameTex \in BOOLEAN :
       LET slot == rd.slot
           hash == rd.hash[slot]
           fb   == Fallback(hash)
           hit  == heap[rd.table].map[hash]
           last == NextSlot(rd.hash, slot) > 3
       IN  /\ IF rd.built
              THEN IF hit # NULL
                   THEN /\ UNCHANGED <<heap, refCount>>
                        /\ rd' = [rd EXCEPT !.tex[slot] = hit, !.slot = NextSlot(rd.hash, slot)]
                   ELSE /\ rd' = [rd EXCEPT !.tex[slot] = fb.tex,
                                            !.slot = NextSlot(rd.hash, slot)]
                        /\ IF fb.viaCRC
                           THEN /\ refCount' = AddRef(refCount, fb.tex)
                                /\ heap' = [heap EXCEPT ![rd.table].map[hash] = fb.tex]
                           ELSE UNCHANGED <<heap, refCount>>
              ELSE /\ UNCHANGED <<heap, refCount>>
                   /\ rd' = [rd EXCEPT !.tex[slot] = IF gameTex THEN fb.tex
                                                     ELSE GetTexture(hash),
                                       !.slot = NextSlot(rd.hash, slot)]
           /\ lockOwner' = IF rd.built /\ last
                           THEN [lockOwner EXCEPT ![<<"swap">>] = NoThread]
                           ELSE lockOwner
           /\ pc' = [pc EXCEPT ![Reader] = IF last THEN "r_apply" ELSE "r_slot"]
    /\ UNCHANGED <<g_pathsLoaded, tableVars, nextTex, g_swapTable,
                   g_swapTableBuilt, mapVars, queue, countVars, job, wtex, rb,
                   s_texPtr, frames, tb, g_textureMap, extVars>>

\* the AddRef undone although none was made
SetMaterialTextureUndoAlways(texture, prevTex, ok, rc) ==
    IF texture # prevTex /\ ok THEN AddRef(rc, texture)
    ELSE IF ~ok THEN Release(rc, texture) ELSE rc

\* SetMaterialTexture (lines 24-96) on the reference count: the texture is
\* AddRef'd when it differs from the stored one; when the material has no
\* such parameter that AddRef is undone
SetMaterialTexture(texture, prevTex, ok, rc) ==
    IF texture # prevTex /\ ok THEN AddRef(rc, texture) ELSE rc

\* the three calls of lines 339-351: a slot without a custom texture is
\* skipped, a changed pointer is written to the persistent storage
RECURSIVE SetMaterialTextures(_, _, _, _, _)
SetMaterialTextures(slots, texs, ok, rc, store) ==
    IF slots = <<>> THEN <<rc, store>>
    ELSE LET i == Head(slots)
             rc1 == IF texs[i] # NULL
                    THEN SetMaterialTexture(texs[i], store[i], ok[i], rc) ELSE rc
             st1 == IF texs[i] # NULL THEN [store EXCEPT ![i] = texs[i]] ELSE store
         IN  SetMaterialTextures(Tail(slots), texs, ok, rc1, st1)

\* lines 339-351
ReaderApply ==
    /\ pc[Reader] = "r_apply"
    /\ \E ok \in ParamOk :
         LET r == SetMaterialTextures(<<1, 2, 3>>, rd.tex, ok, refCount, s_texPtr)
         IN  refCount' = r[1] /\ s_texPtr' = r[2]
    /\ rd' = NoRd
    /\ pc' = [pc EXCEPT ![Reader] = "r_idle"]
    /\ UNCHANGED <<g_pathsLoaded, tableVars, lockOwner, nextTex, swapVars, mapVars,
                   queue, countVars, job, wtex, rb, frames, tb, g_textureMap, extVars>>

\* ------------------------------------------------------------------ Spec
Next ==
    \/ HostInitialize
    \/ HostParsePaths
    \/ HostStartIOCPLoading
    \/ HostStoreManifest
    \/ \E crc \in TPFIds : HostPostTPFRequest(crc)
    \/ HostCleanup
    \/ \E w \in Workers : WorkerDecodeOk(w)
    \/ \E w \in Workers : WorkerDecodeFail(w)
    \/ \E w \in Workers : WorkerAddTexture(w)
    \/ \E w \in Workers : WorkerAddMapped(w)
    \/ \E w \in Workers : WorkerCountFile(w)
    \/ \E w \in Workers : WorkerCountTPF(w)
    \/ \E w \in Workers : WorkerTPFDone(w)
    \/ \E w \in Workers : BuildCheck(w)
    \/ \E w \in Workers : BuildNew(w)
    \/ \E w \in Workers : BuildPass1(w)
    \/ \E w \in Workers : BuildPass2(w)
    \/ \E w \in Workers : BuildSwap(w)
    \/ \E w \in Workers : BuildRelease(w)
    \/ ReaderBegin
    \/ ReaderEnter
    \/ ReaderSlot
    \/ ReaderApply

Spec == Init /\ [][Next]_vars

\* ------------------------------------------- the table alone, step by step
TableOps == {"tex", "path", "vol"}
\* the identifiers the workers insert: one bucket for both when there are
\* two buckets
TableHashes == {1, 3}

TableOf(op) == IF op = "tex" THEN textureTable
               ELSE IF op = "path" THEN pathTable ELSE volumeTable

\* the line-by-line steps below use the bucket lock this way
BucketLockAlways(l) == TRUE

BucketLockFree(l) == lockOwner[l] = NoThread

\* a worker calls AddTexture, AddTexturePath or AddVolumeTexture (lines
\* 143-149, 244-250, 299-305): an uninitialized table or a null texture
\* returns at once.  The texture handed in is one of texs, created by the
\* caller before its first use, the path string one of paths
TableCallOf(th, ops, hashes, texs, paths) ==
    /\ pc[th] = "w_idle" /\ tb[th].n < MaxInserts
    /\ \E op \in ops, hash \in hashes :
       \E val \in IF op = "path" THEN paths ELSE texs :
         /\ tb' = [tb EXCEPT ![th] = [op |-> op, hash |-> hash, val |-> val,
                                      next |-> <<>>, n |-> @.n + 1, done |-> @.done,
                                      get |-> FALSE, res |-> NULL]]
         /\ refCount' = IF op # "path" /\ val # NULL /\ refCount[val] = 0
                        THEN [refCount EXCEPT ![val] = 1] ELSE refCount
         /\ pc' = [pc EXCEPT ![th] = IF ~m_initialized \/ (op # "path" /\ val = NULL)
                                     THEN "w_idle" ELSE "t_enter"]
    /\ UNCHANGED <<g_pathsLoaded, tableVars, lockOwner, nextTex, swapVars, mapVars,
                   queue, countVars, job, wtex, rb, readerVars, g_textureMap, extVars>>

TableCall(th) == TableCallOf(th, TableOps, TableHashes, {NULL, 1}, {1})

\* one critical section guards the whole table
TableEnterGlobal(th) ==
    /\ pc[th] = "t_enter"
    /\ \A b \in Buckets : BucketLockFree(<<tb[th].op, b>>)
    /\ lockOwner' = [lockOwner EXCEPT ![<<tb[th].op, GetBucketIndex(tb[th].hash)>>] = th]
    /\ pc' = [pc EXCEPT ![th] = IF tb[th].get THEN "t_find" ELSE "t_link"]
    /\ UNCHANGED <<g_pathsLoaded, tableVars, refCount, nextTex, swapVars, mapVars,
                   queue, countVars, job, wtex, rb, readerVars, tb, g_textureMap, extVars>>

\* EnterCriticalSection(&m_...TableLocks[bucket])
TableEnter(th) ==
    /\ pc[th] = "t_enter"
    /\ BucketLockFree(<<tb[th].op, GetBucketIndex(tb[th].hash)>>)
    /\ lockOwner' = [lockOwner EXCEPT ![<<tb[th].op, GetBucketIndex(tb[th].hash)>>] = th]
    /\ pc' = [pc EXCEPT ![th] = IF tb[th].get THEN "t_find" ELSE "t_link"]
    /\ UNCHANGED <<g_pathsLoaded, tableVars, refCount, nextTex, swapVars, mapVars,
                   queue, countVars, job, wtex, rb, readerVars, tb, g_textureMap, extVars>>

\* the new entry is filled, the texture AddRef'd, and newEntry->next set to
\* the bucket's head
TableLink(th) ==
    /\ pc[th] = "t_link"
    /\ refCount' = IF tb[th].op = "path" THEN refCount ELSE AddRef(refCount, tb[th].val)
    /\ tb' = [tb EXCEPT ![th].next = TableOf(tb[th].op)[GetBucketIndex(tb[th].hash)]]
    /\ pc' = [pc EXCEPT ![th] = "t_store"]
    /\ UNCHANGED <<g_pathsLoaded, tableVars, lockOwner, nextTex, swapVars, mapVars,
                   queue, countVars, job, wtex, rb, readerVars, g_textureMap, extVars>>

\* the bucket's head is set to the new entry and the lock is left
TableStore(th) ==
    /\ pc[th] = "t_store"
    /\ LET b == GetBucketIndex(tb[th].hash)
           e == IF tb[th].op = "path"
                THEN [hash |-> tb[th].hash, crc32Hash |-> 0, path |-> tb[th].val]
                ELSE [hash |-> tb[th].hash, texture |-> tb[th].val]
       IN  /\ textureTable' = IF tb[th].op = "tex"
                              THEN [textureTable EXCEPT ![b] = Link(e, tb[th].next)]
                              ELSE textureTable
           /\ pathTable' = IF tb[th].op = "path"
                           THEN [pathTable EXCEPT ![b] = Link(e, tb[th].next)]
                           ELSE pathTable
           /\ volumeTable' = IF tb[th].op = "vol"
                             THEN [volumeTable EXCEPT ![b] = Link(e, tb[th].next)]
                             ELSE volumeTable
           /\ lockOwner' = [lockOwner EXCEPT ![<<tb[th].op, b>>] = NoThread]
    /\ tb' = [tb EXCEPT ![th].next = <<>>, ![th].done = @ + 1]
    /\ pc' = [pc EXCEPT ![th] = "w_idle"]
    /\ UNCHANGED <<g_pathsLoaded, m_initialized, refCount, nextTex, swapVars, mapVars,
                   queue, countVars, job, wtex, rb, readerVars, g_textureMap, extVars>>

\* the Carbon loader's worker stores a decoded texture under g_textureMutex
\* (CustomTextureLoader.cpp 591-623): a hash already in the map keeps its
\* texture and the new one is released at once
CarbonStore(th) ==
    /\ pc[th] = "w_idle" /\ tb[th].n < MaxInserts
    /\ \E hash \in TableHashes :
         /\ tb' = [tb EXCEPT ![th] = [op |-> "carbon", hash |-> hash, val |-> th,
                                      next |-> <<>>, n |-> @.n + 1, done |-> @.done,
                                      get |-> FALSE, res |-> NULL]]
         /\ g_textureMap' = IF hash \in DOMAIN g_textureMap THEN g_textureMap
                            ELSE [h \in DOMAIN g_textureMap \cup {hash} |->
                                    IF h = hash THEN th ELSE g_textureMap[h]]
    /\ UNCHANGED <<g_pathsLoaded, tableVars, lockOwner, refCount, nextTex, swapVars,
                   mapVars, queue, countVars, pc, job, wtex, rb, readerVars, extVars>>

NextTable ==
    \/ HostInitialize
    \/ \E w \in Workers : TableCall(w)
    \/ \E w \in Workers : TableEnter(w)
    \/ \E w \in Workers : TableLink(w)
    \/ \E w \in Workers : TableStore(w)
    \/ \E w \in Workers : CarbonStore(w)

SpecTable == Init /\ [][NextTable]_vars

\* --------------------------------------------- lookups beside the inserts
\* ValueOf is what a Get function hands back for an entry it found
ValueOf(op, e) == IF op = "path" THEN e.path ELSE e.texture

\* the values of all entries of a table, whatever their bucket, whose hash
\* is the requested one
MatchVals(op, hash) ==
    {ValueOf(op, TableOf(op)[b][i]) :
       <<b, i>> \in {x \in Buckets \X (1..(2 * MaxInserts)) :
                       /\ x[2] <= Len(TableOf(op)[x[1]])
                       /\ TableOf(op)[x[1]][x[2]].hash = hash}}

\* the tables the lookups are followed on
LookupOps == {"tex", "path"}

TableGet(op, hash) == IF op = "tex" THEN GetTexture(hash)
                      ELSE IF op = "path" THEN GetTexturePath(hash)
                      ELSE GetVolumeTexture(hash)

\* a worker calls GetTexture, GetTexturePath or GetVolumeTexture (lines
\* 174-180, 275-281, 330-336): an uninitialized table answers nullptr at once
LookupCallOf(th, ops, hashes) ==
    /\ pc[th] = "w_idle" /\ tb[th].n < MaxInserts
    /\ \E op \in ops, hash \in hashes :
         tb' = [tb EXCEPT ![th] = [op |-> op, hash |-> hash, val |-> NULL,
                                  next |-> <<>>, n |-> @.n + 1, done |-> @.done,
                                  get |-> TRUE, res |-> NULL]]
    /\ pc' = [pc EXCEPT ![th] = IF ~m_initialized THEN "w_idle" ELSE "t_enter"]
    /\ UNCHANGED <<g_pathsLoaded, tableVars, lockOwner, refCount, nextTex, swapVars,
                   mapVars, queue, countVars, job, wtex, rb, readerVars, g_textureMap, extVars>>

LookupCall(th) == LookupCallOf(th, LookupOps, TableHashes)

\* the chain is walked to the first entry with the requested hash, the
\* lock is left and the entry's value (or nullptr) returned
TableFind(th) ==
    /\ pc[th] = "t_find"
    /\ tb' = [tb EXCEPT ![th].res = TableGet(tb[th].op, tb[th].hash)]
    /\ lockOwner' = [lockOwner EXCEPT
                       ![<<tb[th].op, GetBucketIndex(tb[th].hash)>>] = NoThread]
    /\ pc' = [pc EXCEPT ![th] = "w_idle"]
    /\ UNCHANGED <<g_pathsLoaded, tableVars, refCount, nextTex, swapVars, mapVars,
                   queue, countVars, job, wtex, rb, readerVars, g_textureMap, extVars>>

NextLookup ==
    \/ HostInitialize
    \/ \E w \in Workers : TableCallOf(w, LookupOps, TableHashes, {w}, {w})
    \/ \E w \in Workers : LookupCall(w)
    \/ \E w \in Workers : TableEnter(w)
    \/ \E w \in Workers : TableLink(w)
    \/ \E w \in Workers : TableStore(w)
    \/ \E w \in Workers : TableFind(w)
    \/ HostCleanup

SpecLookup == Init /\ [][NextLookup]_vars

\* ----------------------------- two files submitted, no archive in the run
\* the identifiers of the two texture files found by ParseTexturePaths;
\* the second is one the game asks for by hash
ScenarioPaths == {1, 2}

NextFiles ==
    \/ HostInitialize
    \/ HostParsePathsOf(ScenarioPaths)
    \/ HostStartIOCPLoading
    \/ \E w \in Workers : WorkerDecodeOk(w)
    \/ \E w \in Workers : WorkerDecodeFail(w)
    \/ \E w \in Workers : WorkerAddTexture(w)
    \/ \E w \in Workers : WorkerCountFile(w)
    \/ \E w \in Workers : BuildCheck(w)
    \/ \E w \in Workers : BuildNew(w)
    \/ \E w \in Workers : BuildPass1(w)
    \/ \E w \in Workers : BuildPass2(w)
    \/ \E w \in Workers : BuildSwap(w)
    \/ \E w \in Workers : BuildRelease(w)
    \/ ReaderBegin
    \/ ReaderEnter
    \/ ReaderSlot
    \/ ReaderApply

SpecFiles == Init /\ [][NextFiles]_vars

\* ------------------------------------------------- the CRC32 translator
MaxMappings == 3
MgrCrcs  == {3, 4}
MgrNames == {1, 2, 5}

\* the vector of a CRC32, empty when the key is not in the map
GameHashesOf(c2g, crc32Hash) == IF crc32Hash \in DOMAIN c2g THEN c2g[crc32Hash] ELSE <<>>

\* std::find(gameHashes.begin(), gameHashes.end(), gameHash) != end()
Found(gameHashes, gameHash) == \E i \in 1..Len(gameHashes) : gameHashes[i] = gameHash

\* the push is made without the std::find test
PushBackAlways(gameHashes, gameHash) == Append(gameHashes, gameHash)

PushBackIfAbsent(gameHashes, gameHash) ==
    IF Found(gameHashes, gameHash) THEN gameHashes ELSE Append(gameHashes, gameHash)

\* map[key] = value on a std::unordered_map
MapSet(map, key, value) ==
    [k \in DOMAIN map \cup {key} |-> IF k = key THEN value ELSE map[k]]

\* the test reads size() == 1 where the code has !empty()
GetGameHashByCRC32Single(crc32Hash) ==
    IF ~m_initialized THEN 0
    ELSE LET gameHashes == GameHashesOf(m_crc32ToGameHash, crc32Hash)
         IN  IF Len(gameHashes) = 1 THEN gameHashes[1] ELSE 0

GetGameHashByCRC32(crc32Hash) ==
    IF ~m_initialized THEN 0
    ELSE LET gameHashes == GameHashesOf(m_crc32ToGameHash, crc32Hash)
         IN  IF gameHashes # <<>> THEN gameHashes[1] ELSE 0

\* CRC32Manager::AddMapping, the whole call under m_lock: the game hash is
\* pushed on the CRC32's vector when std::find does not find it there, and
\* the reverse entry is written when the game hash has none yet
AddMapping(crc32Hash, gameHash) ==
    /\ tr.n < MaxMappings /\ LockFree(<<"mgr">>)
    /\ LET gameHashes == GameHashesOf(m_crc32ToGameHash, crc32Hash)
           noReverse  == gameHash \notin DOMAIN m_gameHashToCRC32
       IN  /\ tr' = [op |-> "AddMapping", crc |-> crc32Hash, name |-> gameHash, res |-> 0,
                     found |-> m_initialized /\ Found(gameHashes, gameHash),
                     n |-> tr.n + 1]
           /\ IF ~m_initialized
              THEN UNCHANGED <<m_crc32ToGameHash, m_gameHashToCRC32, m_cacheDirty>>
              ELSE /\ m_crc32ToGameHash' =
                        MapSet(m_crc32ToGameHash, crc32Hash,
                               PushBackIfAbsent(gameHashes, gameHash))
                   /\ m_gameHashToCRC32' =
                        IF noReverse THEN MapSet(m_gameHashToCRC32, gameHash, crc32Hash)
                        ELSE m_gameHashToCRC32
                   /\ m_cacheDirty' =
                        (m_cacheDirty \/ ~Found(gameHashes, gameHash) \/ noReverse)
    /\ UNCHANGED <<g_pathsLoaded, tableVars, lockOwner, refCount, nextTex, swapVars,
                   g_gameHashToCRC32Map, queue, countVars, pc, job, wtex, rb,
                   readerVars, tb, g_textureMap, carbonVars, stopVars, moreVars>>

\* a caller asks for the game hash of a CRC32
CallGetGameHashByCRC32(crc32Hash) ==
    /\ LockFree(<<"mgr">>)
    /\ tr' = [op |-> "GetGameHashByCRC32", crc |-> crc32Hash, name |-> 0,
              res |-> GetGameHashByCRC32(crc32Hash), found |-> FALSE, n |-> tr.n]
    /\ UNCHANGED <<g_pathsLoaded, tableVars, lockOwner, refCount, nextTex, swapVars,
                   mapVars, queue, countVars, pc, job, wtex, rb, readerVars, tb,
                   g_textureMap, m_crc32ToGameHash, m_cacheDirty, carbonVars, stopVars, moreVars>>

\* a caller asks for the CRC32 of a game hash
CallGetCRC32ByGameHash(gameHash) ==
    /\ LockFree(<<"mgr">>)
    /\ tr' = [op |-> "GetCRC32ByGameHash", crc |-> 0, name |-> gameHash,
              res |-> GetCRC32ByGameHash(gameHash), found |-> FALSE, n |-> tr.n]
    /\ UNCHANGED <<g_pathsLoaded, tableVars, lockOwner, refCount, nextTex, swapVars,
                   mapVars, queue, countVars, pc, job, wtex, rb, readerVars, tb,
                   g_textureMap, m_crc32ToGameHash, m_cacheDirty, carbonVars, stopVars, moreVars>>

NextMgr ==
    \/ HostInitialize
    \/ \E c \in MgrCrcs, g \in MgrNames : AddMapping(c, g)
    \/ \E c \in MgrCrcs : CallGetGameHashByCRC32(c)
    \/ \E g \in MgrNames : CallGetCRC32ByGameHash(g)

SpecMgr == Init /\ [][NextMgr]_vars

\* ------------------------------------------- the map-based loaders
\* the files ParseTexturePaths finds
MapPaths == {1, 2, 3}

\* map.erase(key)
MapErase(map, key) == [k \in DOMAIN map \ {key} |-> map[k]]

\* ParseTexturePaths stores one path per file found
MapParseTexturePaths ==
    /\ ~g_pathsLoaded
    /\ g_texturePathMap' = [h \in MapPaths |-> h]
    /\ g_pathsLoaded' = TRUE
    /\ UNCHANGED <<tableVars, lockOwner, refCount, nextTex, swapVars, mapVars, queue,
                   countVars, pc, job, wtex, rb, readerVars, tb, g_textureMap, mgrVars,
                   g_volumeTextureMap, stopVars, moreVars>>

\* StartIOCPLoading resets the counters and posts one request per path
MapStartIOCPLoading ==
    /\ g_pathsLoaded /\ totalTexturesToLoad = 0 /\ g_texturePathMap # <<>>
    /\ texturesLoaded' = 0
    /\ totalTexturesToLoad' = Cardinality(DOMAIN g_texturePathMap)
    /\ queue' = SetToSeq(DOMAIN g_texturePathMap)
    /\ UNCHANGED <<g_pathsLoaded, tableVars, lockOwner, refCount, nextTex, swapVars,
                   mapVars, tpfTexturesLoaded, totalTPFTexturesToLoad, pc, job, wtex,
                   rb, readerVars, tb, g_textureMap, extVars>>

\* the worker of the map-based loader loads the file of a request: the
\* texture is stored under the hash and counted
MapWorkerLoaded(w) ==
    /\ pc[w] = "w_idle" /\ queue # <<>>
    /\ queue' = Tail(queue)
    /\ g_textureMap' = MapSet(g_textureMap, Head(queue), w)
    /\ texturesLoaded' = texturesLoaded + 1
    /\ UNCHANGED <<g_pathsLoaded, tableVars, lockOwner, refCount, nextTex, swapVars,
                   mapVars, totalTexturesToLoad, tpfTexturesLoaded,
                   totalTPFTexturesToLoad, pc, job, wtex, rb, readerVars, tb, extVars>>

\* the load fails: "Remove failed path from map"
MapWorkerFailed(w) ==
    /\ pc[w] = "w_idle" /\ queue # <<>>
    /\ queue' = Tail(queue)
    /\ g_texturePathMap' = MapErase(g_texturePathMap, Head(queue))
    /\ UNCHANGED <<g_pathsLoaded, tableVars, lockOwner, refCount, nextTex, swapVars,
                   mapVars, countVars, pc, job, wtex, rb, readerVars, tb, g_textureMap,
                   mgrVars, g_volumeTextureMap, stopVars, moreVars>>

\* GetVolumeTexture loads a volume texture on first use: a cached texture
\* or a hash without a path returns at once, a load that succeeds is
\* cached, a load that fails removes the path "to avoid retrying"
MapGetVolumeTexture(hash) ==
    /\ hash \notin DOMAIN g_volumeTextureMap
    /\ hash \in DOMAIN g_texturePathMap
    /\ \E ok \in BOOLEAN :
         /\ g_volumeTextureMap' = IF ok THEN MapSet(g_volumeTextureMap, hash, hash)
                                  ELSE g_volumeTextureMap
         /\ g_texturePathMap' = IF ok THEN g_texturePathMap
                                ELSE MapErase(g_texturePathMap, hash)
    /\ UNCHANGED <<g_pathsLoaded, tableVars, lockOwner, refCount, nextTex, swapVars,
                   mapVars, queue, countVars, pc, job, wtex, rb, readerVars, tb,
                   g_textureMap, mgrVars, stopVars, moreVars>>

NextMaps ==
    \/ MapParseTexturePaths
    \/ MapStartIOCPLoading
    \/ \E w \in Workers : MapWorkerLoaded(w)
    \/ \E w \in Workers : MapWorkerFailed(w)
    \/ \E h \in MapPaths : MapGetVolumeTexture(h)

SpecMaps == Init /\ [][NextMaps]_vars

\* ------------------------------------------------ the decode calls
\* the worker of the map-based loader dequeues a request
DecodeTake(w) ==
    /\ pc[w] = "w_idle" /\ queue # <<>>
    /\ queue' = Tail(queue)
    /\ job' = [job EXCEPT ![w] = [kind |-> "file", hash |-> Head(queue)]]
    /\ pc' = [pc EXCEPT ![w] = "d_enter"]
    /\ UNCHANGED <<g_pathsLoaded, tableVars, lockOwner, refCount, nextTex, swapVars,
                   mapVars, countVars, wtex, rb, readerVars, tb, g_textureMap, extVars>>

\* EnterCriticalSection(&g_d3dxMutex); the worker is then inside
\* D3DXCreateTextureFromFileA
DecodeEnter(w) ==
    /\ pc[w] = "d_enter"
    /\ LockFree(<<"d3dx">>)
    /\ lockOwner' = [lockOwner EXCEPT ![<<"d3dx">>] = w]
    /\ pc' = [pc EXCEPT ![w] = "d_call"]
    /\ UNCHANGED <<g_pathsLoaded, tableVars, refCount, nextTex, swapVars, mapVars,
                   queue, countVars, job, wtex, rb, readerVars, tb, g_textureMap,
                   extVars>>

\* D3DXCreateTextureFromFileA returns and the worker leaves g_d3dxMutex
DecodeReturn(w) ==
    /\ pc[w] = "d_call"
    /\ lockOwner' = [lockOwner EXCEPT ![<<"d3dx">>] = NoThread]
    /\ \E ok \in BOOLEAN : pc' = [pc EXCEPT ![w] = IF ok THEN "d_store" ELSE "w_idle"]
    /\ UNCHANGED <<g_pathsLoaded, tableVars, refCount, nextTex, swapVars, mapVars,
                   queue, countVars, job, wtex, rb, readerVars, tb, g_textureMap,
                   extVars>>

\* under g_textureMutex the texture is stored and counted, unless the hash
\* is already loaded
DecodeStore(w) ==
    /\ pc[w] = "d_store"
    /\ LockFree(<<"texmutex">>)
    /\ g_textureMap' = IF job[w].hash \in DOMAIN g_textureMap THEN g_textureMap
                       ELSE MapSet(g_textureMap, job[w].hash, w)
    /\ texturesLoaded' = IF job[w].hash \in DOMAIN g_textureMap THEN texturesLoaded
                         ELSE texturesLoaded + 1
    /\ pc' = [pc EXCEPT ![w] = "w_idle"]
    /\ UNCHANGED <<g_pathsLoaded, tableVars, lockOwner, refCount, nextTex, swapVars,
                   mapVars, queue, totalTexturesToLoad, tpfTexturesLoaded,
                   totalTPFTexturesToLoad, job, wtex, rb, readerVars, tb, extVars>>

\* GetVolumeTexture enters g_textureMutex; a cached texture or a hash
\* without a path returns at once, otherwise the caller is then inside
\* D3DXCreateVolumeTextureFromFileA
GetVolumeTextureCall(hash) ==
    /\ pc[Reader] = "r_idle"
    /\ LockFree(<<"texmutex">>)
    /\ hash \notin DOMAIN g_volumeTextureMap
    /\ hash \in DOMAIN g_texturePathMap
    /\ lockOwner' = [lockOwner EXCEPT ![<<"texmutex">>] = Reader]
    /\ tb' = [tb EXCEPT ![Reader] = [NoTb EXCEPT !.op = "getvol", !.hash = hash]]
    /\ pc' = [pc EXCEPT ![Reader] = "v_call"]
    /\ UNCHANGED <<g_pathsLoaded, tableVars, refCount, nextTex, swapVars, mapVars,
                   queue, countVars, job, wtex, rb, readerVars, g_textureMap, extVars>>

\* the call returns: a texture is cached, a failure removes the path; the
\* caller leaves g_textureMutex
GetVolumeTextureReturn ==
    /\ pc[Reader] = "v_call"
    /\ \E ok \in BOOLEAN :
         /\ g_volumeTextureMap' = IF ok THEN MapSet(g_volumeTextureMap, tb[Reader].hash,
                                                    tb[Reader].hash)
                                  ELSE g_volumeTextureMap
         /\ g_texturePathMap' = IF ok THEN g_texturePathMap
                                ELSE MapErase(g_texturePathMap, tb[Reader].hash)
    /\ lockOwner' = [lockOwner EXCEPT ![<<"texmutex">>] = NoThread]
    /\ tb' = [tb EXCEPT ![Reader] = NoTb]
    /\ pc' = [pc EXCEPT ![Reader] = "r_idle"]
    /\ UNCHANGED <<g_pathsLoaded, tableVars, refCount, nextTex, swapVars, mapVars,
                   queue, countVars, job, wtex, rb, readerVars, g_textureMap, mgrVars,
                   stopVars, moreVars>>

NextDecode ==
    \/ MapParseTexturePaths
    \/ MapStartIOCPLoading
    \/ \E w \in Workers : DecodeTake(w)
    \/ \E w \in Workers : DecodeEnter(w)
    \/ \E w \in Workers : DecodeReturn(w)
    \/ \E w \in Workers : DecodeStore(w)
    \/ \E h \in MapPaths : GetVolumeTextureCall(h)
    \/ GetVolumeTextureReturn

SpecDecode == Init /\ [][NextDecode]_vars

\* the thread is inside a D3DXCreate...FromFile call
InDecodeCall(th) == pc[th] \in {"d_call", "v_call"}

\* C29: at most one thread at a time is inside a decode/create call,
\* counting every worker and the caller of an on-demand load
C29_DecodeSerialized ==
    Cardinality({th \in Threads : InDecodeCall(th)}) <= 1


\* ------------------------------------------------- the worker pool
MaxCores == 18
\* SYSTEM_INFO::dwNumberOfProcessors
CoreCounts == 1..MaxCores

NUM_WORKER_THREADS == 4

\* the max and min macros of <windows.h>
max(a, b) == IF a > b THEN a ELSE b
min(a, b) == IF a < b THEN a ELSE b

\* "Use all cores, minimum 2, maximum 16"
GetOptimalWorkerThreadCount(numCores) == max(2, min(numCores, 16))

poolUnchanged ==
    UNCHANGED <<g_pathsLoaded, tableVars, lockOwner, refCount, nextTex, swapVars,
                mapVars, queue, countVars, pc, job, wtex, rb, readerVars, tb,
                g_textureMap, mgrVars, carbonVars, stopVars, tpf, lastTextureCount,
                hookCallCount, lp, sl>>

\* StartIOCPLoading of the loader with the dynamic pool: the port is
\* created for GetOptimalWorkerThreadCount() threads
PoolStartIOCPLoading(numCores) ==
    /\ pool.loader = "none"
    /\ pool' = [loader |-> "dynamic", numCores |-> numCores,
                numWorkerThreads |-> GetOptimalWorkerThreadCount(numCores),
                threads |-> 0]
    /\ poolUnchanged

\* StartIOCPLoading of the Carbon loader: the port is created for
\* NUM_WORKER_THREADS threads
PoolStartIOCPLoadingCarbon(numCores) ==
    /\ pool.loader = "none"
    /\ pool' = [loader |-> "carbon", numCores |-> numCores,
                numWorkerThreads |-> NUM_WORKER_THREADS, threads |-> 0]
    /\ poolUnchanged

\* g_workerThreads->emplace_back(IOCPWorkerThread), one pass of the loop
PoolCreateThread ==
    /\ pool.loader # "none"
    /\ pool.threads < pool.numWorkerThreads
    /\ pool' = [pool EXCEPT !.threads = @ + 1]
    /\ poolUnchanged

NextPool ==
    \/ \E numCores \in CoreCounts : PoolStartIOCPLoading(numCores)
    \/ \E numCores \in CoreCounts : PoolStartIOCPLoadingCarbon(numCores)
    \/ PoolCreateThread

SpecPool == Init /\ [][NextPool]_vars

\* StartIOCPLoading has started all its worker threads
PoolStarted == pool.loader # "none" /\ pool.threads = pool.numWorkerThreads

Clamp(x, lo, hi) == IF x < lo THEN lo ELSE IF x > hi THEN hi ELSE x

\* C30: the number of worker threads is clamp(hardwareConcurrency, 2, 16)
C30_WorkerCountClamped ==
    PoolStarted => pool.threads = Clamp(pool.numCores, 2, 16)


\* ------------------------------------------- StartIOCPLoading, post by post
postUnchanged ==
    UNCHANGED <<g_pathsLoaded, tableVars, lockOwner, refCount, nextTex, swapVars,
                mapVars, tpfTexturesLoaded, totalTPFTexturesToLoad, pc, job, wtex,
                rb, readerVars, tb, g_textureMap, mgrVars, carbonVars, stopVars,
                tpf, lastTextureCount, hookCallCount, pool, lp>>

\* the loaded count is reset and the total set to CountTexturePaths();
\* without paths the function returns
PostBegin ==
    /\ pc[Host] = "h_run" /\ g_pathsLoaded /\ sl.phase = "idle"
    /\ \A b \in Buckets : LockFree(<<"path", b>>)
    /\ texturesLoaded' = 0
    /\ totalTexturesToLoad' = CountTexturePaths
    /\ sl' = [phase |-> IF CountTexturePaths = 0 THEN "done" ELSE "post",
              i |-> 1, posted |-> 0]
    /\ UNCHANGED queue
    /\ postUnchanged

\* ForEachTexturePath: one PostQueuedCompletionStatus, which can fail; the
\* request is then deleted and not counted in "posted"
PostStep ==
    /\ sl.phase = "post" /\ sl.i <= Len(AllPaths(0))
    /\ \E ok \in BOOLEAN :
         /\ queue' = IF ok THEN Append(queue, [kind |-> "file",
                                               hash |-> AllPaths(0)[sl.i].hash])
                     ELSE queue
         /\ sl' = [sl EXCEPT !.i = @ + 1, !.posted = IF ok THEN @ + 1 ELSE @]
    /\ UNCHANGED <<texturesLoaded, totalTexturesToLoad>>
    /\ postUnchanged

\* the number of posted requests is logged and the function returns
PostEnd ==
    /\ sl.phase = "post" /\ sl.i > Len(AllPaths(0))
    /\ sl' = [sl EXCEPT !.phase = "done"]
    /\ UNCHANGED <<queue, texturesLoaded, totalTexturesToLoad>>
    /\ postUnchanged

NextPost ==
    \/ HostInitialize
    \/ \E ids \in SUBSET ScenarioPaths : HostParsePathsOf(ids)
    \/ PostBegin
    \/ PostStep
    \/ PostEnd
    \/ \E w \in Workers : WorkerDecodeOk(w)
    \/ \E w \in Workers : WorkerDecodeFail(w)
    \/ \E w \in Workers : WorkerAddTexture(w)
    \/ \E w \in Workers : WorkerCountFile(w)
    \/ \E w \in Workers : BuildCheck(w)
    \/ \E w \in Workers : BuildNew(w)
    \/ \E w \in Workers : BuildPass1(w)
    \/ \E w \in Workers : BuildPass2(w)
    \/ \E w \in Workers : BuildSwap(w)
    \/ \E w \in Workers : BuildRelease(w)

SpecPost == Init /\ [][NextPost]_vars

\* C37: when StartIOCPLoading returns, the expected total of the session
\* is the number of requests it posted.
C37_TotalEqualsPosted ==
    sl.phase = "done" => totalTexturesToLoad = sl.posted


\* ------------------------------------------------------------ shutdown
\* InitializeWorkers creates the completion port and the worker threads
StopInitializeWorkers ==
    /\ pc[Host] = "h_idle" /\ ~iocp
    /\ iocp' = TRUE
    /\ pc' = [pc EXCEPT ![Host] = "h_run"]
    /\ UNCHANGED <<g_pathsLoaded, tableVars, lockOwner, refCount, nextTex, swapVars,
                   mapVars, queue, countVars, job, wtex, rb, readerVars, tb,
                   g_textureMap, mgrVars, carbonVars, moreVars, stopLoading, globalDevice,
                   deviceRef, sd, wdev>>

\* a request's ppDevice: the address of the global device pointer
AddrOfGlobalDevice == [ref |-> TRUE, val |-> NULL]

\* the requests hold the device that is current when they are posted
PostRequestsResolved(device, k) ==
    [i \in 1..k |-> [kind |-> "file", hash |-> i,
                     ppDevice |-> [ref |-> FALSE, val |-> device]]]

\* new TextureLoadRequest{ hash, path, ctx.globalDevice } for k paths
PostRequests(device, k) ==
    [i \in 1..k |-> [kind |-> "file", hash |-> i, ppDevice |-> AddrOfGlobalDevice]]

\* *ppDevice, read when the worker runs the request
Deref(ppDevice) == IF ppDevice.ref THEN globalDevice ELSE ppDevice.val

\* StartIOCPLoading(device) takes a reference to the device, stores the
\* pointer and posts the requests
StartOn(device) ==
    /\ pc[Host] = "h_run" /\ iocp
    /\ deviceRef' = [deviceRef EXCEPT ![device] = @ + 1]
    /\ globalDevice' = device
    /\ \E k \in 0..NumWorkers : queue' = queue \o PostRequests(device, k)
    /\ UNCHANGED <<g_pathsLoaded, tableVars, lockOwner, refCount, nextTex, swapVars,
                   mapVars, countVars, pc, job, wtex, rb, readerVars, tb,
                   g_textureMap, mgrVars, carbonVars, moreVars, stopLoading, iocp, sd, wdev>>

\* the first StartIOCPLoading, with the game's device
StopStartIOCPLoading ==
    /\ globalDevice = NULL
    /\ StartOn(1)

\* the loop head does not look at the flag
StopWorkerLoopNoCheck(w) ==
    /\ iocp /\ pc[w] = "w_idle"
    /\ pc' = [pc EXCEPT ![w] = "w_wait"]
    /\ UNCHANGED <<g_pathsLoaded, tableVars, lockOwner, refCount, nextTex, swapVars,
                   mapVars, queue, countVars, job, wtex, rb, readerVars, tb,
                   g_textureMap, extVars>>

\* the head of the worker's loop: while (!stopLoading) wait on the port
StopWorkerLoop(w) ==
    /\ iocp /\ pc[w] = "w_idle"
    /\ pc' = [pc EXCEPT ![w] = IF stopLoading THEN "w_exit" ELSE "w_wait"]
    /\ UNCHANGED <<g_pathsLoaded, tableVars, lockOwner, refCount, nextTex, swapVars,
                   mapVars, queue, countVars, job, wtex, rb, readerVars, tb,
                   g_textureMap, extVars>>

\* GetQueuedCompletionStatus times out after 500 ms: break when the flag
\* is set, else continue
StopWorkerTimeout(w) ==
    /\ pc[w] = "w_wait" /\ queue = <<>>
    /\ pc' = [pc EXCEPT ![w] = IF stopLoading THEN "w_exit" ELSE "w_idle"]
    /\ UNCHANGED <<g_pathsLoaded, tableVars, lockOwner, refCount, nextTex, swapVars,
                   mapVars, queue, countVars, job, wtex, rb, readerVars, tb,
                   g_textureMap, extVars>>

\* GetQueuedCompletionStatus hands out a packet: completion key 0 is the
\* shutdown signal, a request is loaded with a reference on the device
\* that *ppDevice names at this moment (none: the request is dropped)
StopWorkerTake(w) ==
    /\ pc[w] = "w_wait" /\ queue # <<>>
    /\ queue' = Tail(queue)
    /\ pc' = [pc EXCEPT ![w] = IF Head(queue).kind = "wake" THEN "w_exit"
                                ELSE IF Deref(Head(queue).ppDevice) = NULL
                                THEN "w_idle"
                                ELSE "w_load"]
    /\ IF Head(queue).kind # "wake" /\ Deref(Head(queue).ppDevice) # NULL
       THEN /\ wdev' = [wdev EXCEPT ![w] = Deref(Head(queue).ppDevice)]
            /\ deviceRef' = [deviceRef EXCEPT ![Deref(Head(queue).ppDevice)] = @ + 1]
       ELSE UNCHANGED <<wdev, deviceRef>>
    /\ UNCHANGED <<g_pathsLoaded, tableVars, lockOwner, refCount, nextTex, swapVars,
                   mapVars, countVars, job, wtex, rb, readerVars, tb,
                   g_textureMap, mgrVars, carbonVars, moreVars, stopLoading, iocp,
                   globalDevice, sd>>

\* the load is over: device->Release(), delete req
StopWorkerLoaded(w) ==
    /\ pc[w] = "w_load"
    /\ deviceRef' = [deviceRef EXCEPT ![wdev[w]] = @ - 1]
    /\ wdev' = [wdev EXCEPT ![w] = NULL]
    /\ pc' = [pc EXCEPT ![w] = "w_idle"]
    /\ UNCHANGED <<g_pathsLoaded, tableVars, lockOwner, refCount, nextTex, swapVars,
                   mapVars, queue, countVars, job, wtex, rb, readerVars, tb,
                   g_textureMap, mgrVars, carbonVars, moreVars, stopLoading, iocp,
                   globalDevice, sd>>

\* ShutdownWorkers: ctx.stopLoading->store(true)
ShutdownSetStop ==
    /\ pc[Host] = "h_run" /\ iocp
    /\ stopLoading' = TRUE
    /\ sd' = NoSd
    /\ pc' = [pc EXCEPT ![Host] = "s_post"]
    /\ UNCHANGED <<g_pathsLoaded, tableVars, lockOwner, refCount, nextTex, swapVars,
                   mapVars, queue, countVars, job, wtex, rb, readerVars, tb,
                   g_textureMap, mgrVars, carbonVars, moreVars, iocp, globalDevice, deviceRef, wdev>>

\* one PostQueuedCompletionStatus(iocp, 0, 0, nullptr) per worker thread
ShutdownPost ==
    /\ pc[Host] = "s_post"
    /\ queue' = Append(queue, [kind |-> "wake", hash |-> 0, ppDevice |-> AddrOfGlobalDevice])
    /\ sd' = [sd EXCEPT !.posted = @ + 1]
    /\ pc' = [pc EXCEPT ![Host] = IF sd.posted + 1 = NumWorkers THEN "s_join"
                                   ELSE "s_post"]
    /\ UNCHANGED <<g_pathsLoaded, tableVars, lockOwner, refCount, nextTex, swapVars,
                   mapVars, countVars, job, wtex, rb, readerVars, tb,
                   g_textureMap, mgrVars, carbonVars, moreVars, stopLoading, iocp,
                   globalDevice, deviceRef, wdev>>

\* the join returns at once, whether or not the thread has ended
ShutdownJoinNoWait(w) ==
    /\ pc[Host] = "s_join" /\ w \notin sd.joined
    /\ \A v \in Workers : v < w => v \in sd.joined
    /\ sd' = [sd EXCEPT !.joined = @ \cup {w}]
    /\ pc' = [pc EXCEPT ![Host] = IF sd.joined \cup {w} = Workers THEN "s_close"
                                   ELSE "s_join"]
    /\ UNCHANGED <<g_pathsLoaded, tableVars, lockOwner, refCount, nextTex, swapVars,
                   mapVars, queue, countVars, job, wtex, rb, readerVars, tb,
                   g_textureMap, mgrVars, carbonVars, moreVars, stopLoading, iocp,
                   globalDevice, deviceRef, wdev>>

\* th.join() for the threads in the vector's order: returns once the
\* thread has left IOCPWorkerThread
ShutdownJoin(w) ==
    /\ pc[Host] = "s_join" /\ w \notin sd.joined
    /\ \A v \in Workers : v < w => v \in sd.joined
    /\ pc[w] = "w_exit"
    /\ sd' = [sd EXCEPT !.joined = @ \cup {w}]
    /\ pc' = [pc EXCEPT ![Host] = IF sd.joined \cup {w} = Workers THEN "s_close"
                                   ELSE "s_join"]
    /\ UNCHANGED <<g_pathsLoaded, tableVars, lockOwner, refCount, nextTex, swapVars,
                   mapVars, queue, countVars, job, wtex, rb, readerVars, tb,
                   g_textureMap, mgrVars, carbonVars, moreVars, stopLoading, iocp,
                   globalDevice, deviceRef, wdev>>

\* workerThreads->clear(), CloseHandle(iocp), iocp = nullptr,
\* stopLoading->store(false)
ShutdownClose ==
    /\ pc[Host] = "s_close"
    /\ iocp' = FALSE
    /\ stopLoading' = FALSE
    /\ pc' = [pc EXCEPT ![Host] = "s_release"]
    /\ UNCHANGED <<g_pathsLoaded, tableVars, lockOwner, refCount, nextTex, swapVars,
                   mapVars, queue, countVars, job, wtex, rb, readerVars, tb,
                   g_textureMap, mgrVars, carbonVars, moreVars, globalDevice, deviceRef, sd, wdev>>

\* the device reference taken in StartIOCPLoading is released, if one is held
ShutdownRelease ==
    /\ pc[Host] = "s_release"
    /\ deviceRef' = IF globalDevice # NULL
                    THEN [deviceRef EXCEPT ![globalDevice] = @ - 1] ELSE deviceRef
    /\ globalDevice' = NULL
    /\ pc' = [pc EXCEPT ![Host] = "h_done"]
    /\ UNCHANGED <<g_pathsLoaded, tableVars, lockOwner, refCount, nextTex, swapVars,
                   mapVars, queue, countVars, job, wtex, rb, readerVars, tb,
                   g_textureMap, mgrVars, carbonVars, moreVars, stopLoading, iocp, sd, wdev>>

NextStop ==
    \/ StopInitializeWorkers
    \/ StopStartIOCPLoading
    \/ \E w \in Workers : StopWorkerLoop(w)
    \/ \E w \in Workers : StopWorkerTimeout(w)
    \/ \E w \in Workers : StopWorkerTake(w)
    \/ \E w \in Workers : StopWorkerLoaded(w)
    \/ ShutdownSetStop
    \/ ShutdownPost
    \/ \E w \in Workers : ShutdownJoin(w)
    \/ ShutdownClose
    \/ ShutdownRelease

SpecStop == Init /\ [][NextStop]_vars

\* the worker threads and the thread calling ShutdownWorkers are scheduled
\* by the operating system, a wait on the port returns with a packet or
\* after its 500 ms timeout, and a decode/create call returns
StopFairness ==
    /\ \A w \in Workers : WF_vars(StopWorkerLoop(w))
    /\ \A w \in Workers : WF_vars(StopWorkerTimeout(w) \/ StopWorkerTake(w))
    /\ \A w \in Workers : WF_vars(StopWorkerLoaded(w))
    /\ WF_vars(ShutdownPost)
    /\ \A w \in Workers : WF_vars(ShutdownJoin(w))

SpecStopFair == SpecStop /\ StopFairness

\* --------------------------------------------- the device is replaced
MaxDeviceRef == 3       \* cap on the references one device collects

\* StartIOCPLoading is called again, with the same or another device,
\* while requests of the earlier call may still be queued
RestartIOCPLoading(device) ==
    /\ globalDevice # NULL
    /\ deviceRef[device] < MaxDeviceRef
    /\ StartOn(device)

NextDevice ==
    \/ NextStop
    \/ \E device \in Devices : RestartIOCPLoading(device)

SpecDevice == Init /\ [][NextDevice]_vars

\* ------------------------------------------------- the archive loader
MaxFiles == 3           \* entries in one archive

\* the lines of texmod.def: "gameHash|filename", a line without '|' or
\* without a hexadecimal number is skipped; crc is what
\* ParseCRC32FromFilename finds in the filename
TexmodLines ==
    << [valid |-> TRUE,  gameHash |-> 2, crc |-> 4],
       [valid |-> FALSE, gameHash |-> 0, crc |-> 0],
       [valid |-> TRUE,  gameHash |-> 2, crc |-> 3] >>

\* the entries of the ZIP; ok: the entry can be stat'ed and extracted
ZipEntries ==
    [name : {"texmod.def"}, crc : {0}, ok : BOOLEAN]
        \cup [name : {"dds"}, crc : {3}, ok : BOOLEAN]
        \cup [name : {"dds"}, crc : {4}, ok : {TRUE}]

Archives == UNION {[1..n -> ZipEntries] : n \in 0..MaxFiles}

\* the while (std::getline) loop: m_gameHashToCRC32[gameHash] = crc32Hash
RECURSIVE ParseLines(_, _)
ParseLines(lines, map) ==
    IF lines = <<>> THEN map
    ELSE ParseLines(Tail(lines),
                    IF Head(lines).valid
                    THEN MapSet(map, Head(lines).gameHash, Head(lines).crc)
                    ELSE map)

\* LoadTPFAndPostToIOCP up to the first pass: the file is opened, mapped,
\* decrypted and opened as a ZIP (any failure returns 0), then the members
\* are cleared
TpfLoad(archive, callback) ==
    /\ tpf.phase = "idle"
    /\ \E opened \in BOOLEAN :
         tpf' = IF opened
                THEN [phase |-> "pass1", archive |-> archive, i |-> 1, map |-> <<>>,
                      callback |-> callback, ddsEntriesPosted |-> 0, ret |-> 0]
                ELSE [tpf EXCEPT !.phase = "done", !.ret = 0]
    /\ UNCHANGED <<g_pathsLoaded, tableVars, lockOwner, refCount, nextTex, swapVars,
                   mapVars, queue, countVars, pc, job, wtex, rb, readerVars, tb,
                   g_textureMap, mgrVars, carbonVars, stopVars, lastTextureCount, hookCallCount, pool, lp, sl>>

\* the first pass goes on to the second without reading texmod.def
TpfPass1StepNoParse ==
    /\ tpf.phase = "pass1"
    /\ tpf' = [tpf EXCEPT !.phase = "pass2", !.i = 1]
    /\ UNCHANGED <<g_pathsLoaded, tableVars, lockOwner, refCount, nextTex, swapVars,
                   mapVars, queue, countVars, pc, job, wtex, rb, readerVars, tb,
                   g_textureMap, mgrVars, carbonVars, stopVars, lastTextureCount, hookCallCount, pool, lp, sl>>

\* one iteration of the first pass: only texmod.def is looked at; it is
\* extracted, parsed at once, and the pass ends
TpfPass1Step ==
    /\ tpf.phase = "pass1"
    /\ tpf' = IF tpf.i > Len(tpf.archive)
              THEN [tpf EXCEPT !.phase = "pass2", !.i = 1]
              ELSE IF tpf.archive[tpf.i].name # "texmod.def" \/ ~tpf.archive[tpf.i].ok
              THEN [tpf EXCEPT !.i = @ + 1]
              ELSE [tpf EXCEPT !.map = ParseLines(TexmodLines, tpf.map),
                               !.phase = "pass2", !.i = 1]
    /\ UNCHANGED <<g_pathsLoaded, tableVars, lockOwner, refCount, nextTex, swapVars,
                   mapVars, queue, countVars, pc, job, wtex, rb, readerVars, tb,
                   g_textureMap, mgrVars, carbonVars, stopVars, lastTextureCount, hookCallCount, pool, lp, sl>>

\* one iteration of the second pass: texmod.def and entries that cannot
\* be extracted are skipped; for a blob the callback is called and counted.
\* The callback posts the blob with async::PostTPFRequest, which fails
\* without a port or when PostQueuedCompletionStatus fails.
TpfPass2Step ==
    /\ tpf.phase = "pass2"
    /\ IF tpf.i > Len(tpf.archive)
       THEN /\ tpf' = [tpf EXCEPT !.phase = "done", !.ret = tpf.ddsEntriesPosted]
            /\ UNCHANGED <<queue, totalTPFTexturesToLoad>>
       ELSE IF tpf.archive[tpf.i].name = "texmod.def" \/ ~tpf.archive[tpf.i].ok
       THEN /\ tpf' = [tpf EXCEPT !.i = @ + 1]
            /\ UNCHANGED <<queue, totalTPFTexturesToLoad>>
       ELSE IF ~tpf.callback
       THEN /\ tpf' = [tpf EXCEPT !.i = @ + 1]
            /\ UNCHANGED <<queue, totalTPFTexturesToLoad>>
       ELSE /\ tpf' = [tpf EXCEPT !.i = @ + 1, !.ddsEntriesPosted = @ + 1]
            /\ \E accepted \in (IF iocp THEN BOOLEAN ELSE {FALSE}) :
                 IF accepted
                 THEN /\ queue' = Append(queue, [kind |-> "tpf",
                                                 hash |-> tpf.archive[tpf.i].crc])
                      /\ totalTPFTexturesToLoad' = totalTPFTexturesToLoad + 1
                 ELSE UNCHANGED <<queue, totalTPFTexturesToLoad>>
    /\ UNCHANGED <<g_pathsLoaded, tableVars, lockOwner, refCount, nextTex, swapVars,
                   mapVars, texturesLoaded, totalTexturesToLoad, tpfTexturesLoaded,
                   pc, job, wtex, rb, readerVars, tb, g_textureMap, mgrVars,
                   carbonVars, stopVars, lastTextureCount, hookCallCount, pool, lp, sl>>

NextTPF ==
    \/ StopInitializeWorkers
    \/ \E archive \in Archives, callback \in BOOLEAN : TpfLoad(archive, callback)
    \/ TpfPass1Step
    \/ TpfPass2Step

SpecTPF == Init /\ [][NextTPF]_vars

\* ------------------------------------- re-scan and device notification
\* InitializeWorkers: the port and the threads are created, or
\* CreateIoCompletionPort fails and false is returned
InitializeWorkers ==
    /\ pc[Host] = "h_run" /\ ~iocp
    /\ \E created \in BOOLEAN : iocp' = created
    /\ UNCHANGED <<g_pathsLoaded, tableVars, lockOwner, refCount, nextTex, swapVars,
                   mapVars, queue, countVars, pc, job, wtex, rb, readerVars, tb,
                   g_textureMap, mgrVars, carbonVars, moreVars, stopLoading,
                   globalDevice, deviceRef, wdev, sd>>

\* HandleHookLoad: g_pathsLoaded = false, then ParseTexturePaths adds a
\* path entry for every file it finds now
HandleHookLoad(ids) ==
    /\ pc[Host] = "h_run" /\ m_initialized
    /\ hookCallCount < MaxHookCalls
    /\ \A b \in Buckets : LockFree(<<"path", b>>)
    /\ hookCallCount' = hookCallCount + 1
    /\ pathTable' = AddTexturePathAll(pathTable, ids)
    /\ g_pathsLoaded' = TRUE
    /\ UNCHANGED <<m_initialized, textureTable, volumeTable, lockOwner, refCount,
                   nextTex, swapVars, mapVars, queue, countVars, pc, job, wtex,
                   rb, readerVars, tb, g_textureMap, mgrVars, carbonVars, stopVars,
                   tpf, lastTextureCount, pool, lp, sl>>

\* the requests are posted whether or not a port exists
SetD3DDeviceNoPortCheck(device) ==
    /\ pc[Host] = "h_run" /\ g_pathsLoaded
    /\ \A b \in Buckets : LockFree(<<"path", b>>)
    /\ lastTextureCount # CountTexturePaths
    /\ lastTextureCount' = CountTexturePaths
    /\ deviceRef' = [deviceRef EXCEPT ![device] = @ + 1]
    /\ globalDevice' = device
    /\ texturesLoaded' = 0
    /\ totalTexturesToLoad' = CountTexturePaths
    /\ queue' = queue \o FileJobs(AllPaths(0))
    /\ UNCHANGED <<g_pathsLoaded, tableVars, lockOwner, refCount, nextTex, swapVars,
                   mapVars, tpfTexturesLoaded, totalTPFTexturesToLoad, pc, job, wtex,
                   rb, readerVars, tb, g_textureMap, mgrVars, carbonVars,
                   stopLoading, iocp, wdev, sd, tpf, hookCallCount, pool, lp, sl>>

\* SetD3DDevice, called on every frame: when the count of path entries
\* differs from the count at the last start, StartIOCPLoading(device) is
\* called (it returns at once without a port) and the count is kept
SetD3DDevice(device) ==
    /\ pc[Host] = "h_run" /\ g_pathsLoaded
    /\ \A b \in Buckets : LockFree(<<"path", b>>)
    /\ IF lastTextureCount # CountTexturePaths
       THEN /\ lastTextureCount' = CountTexturePaths
            /\ IF iocp
               THEN /\ deviceRef' = [deviceRef EXCEPT ![device] = @ + 1]
                    /\ globalDevice' = device
                    /\ texturesLoaded' = 0
                    /\ totalTexturesToLoad' = CountTexturePaths
                    /\ queue' = queue \o FileJobs(AllPaths(0))
               ELSE UNCHANGED <<deviceRef, globalDevice, texturesLoaded,
                                totalTexturesToLoad, queue>>
       ELSE UNCHANGED <<lastTextureCount, deviceRef, globalDevice, texturesLoaded,
                        totalTexturesToLoad, queue>>
    /\ UNCHANGED <<g_pathsLoaded, tableVars, lockOwner, refCount, nextTex, swapVars,
                   mapVars, tpfTexturesLoaded, totalTPFTexturesToLoad, pc, job, wtex,
                   rb, readerVars, tb, g_textureMap, mgrVars, carbonVars,
                   stopLoading, iocp, wdev, sd, tpf, hookCallCount, pool, lp, sl>>

RescanFiles == SUBSET ScenarioPaths

NextRescan ==
    \/ HostInitialize
    \/ InitializeWorkers
    \/ \E ids \in RescanFiles : HostParsePathsOf(ids)
    \/ \E ids \in RescanFiles : HandleHookLoad(ids)
    \/ SetD3DDevice(1)
    \/ \E w \in Workers : WorkerDecodeOk(w)
    \/ \E w \in Workers : WorkerDecodeFail(w)
    \/ \E w \in Workers : WorkerAddTexture(w)
    \/ \E w \in Workers : WorkerCountFile(w)
    \/ \E w \in Workers : BuildCheck(w)
    \/ \E w \in Workers : BuildNew(w)
    \/ \E w \in Workers : BuildPass1(w)
    \/ \E w \in Workers : BuildPass2(w)
    \/ \E w \in Workers : BuildSwap(w)
    \/ \E w \in Workers : BuildRelease(w)

SpecRescan == Init /\ [][NextRescan]_vars

\* the same with the real-time consumer
NextConsumer ==
    \/ NextRescan
    \/ ReaderBegin
    \/ ReaderEnter
    \/ ReaderSlot
    \/ ReaderApply

SpecConsumer == Init /\ [][NextConsumer]_vars

\* ------------------------------------- one table, several buckets in use
\* identifiers of which two share a bucket and one has a bucket of its own
\* when there are two buckets
BucketHashes == {1, 2, 3}

NextBuckets ==
    \/ HostInitialize
    \/ \E w \in Workers : TableCallOf(w, {"tex"}, BucketHashes, {w}, {w})
    \/ \E w \in Workers : LookupCallOf(w, {"tex"}, BucketHashes)
    \/ \E w \in Workers : TableEnter(w)
    \/ \E w \in Workers : TableLink(w)
    \/ \E w \in Workers : TableStore(w)
    \/ \E w \in Workers : TableFind(w)

SpecBuckets == Init /\ [][NextBuckets]_vars

TypeOK ==
    /\ \A t \in TexIds : refCount[t] \in 0..20
    /\ g_swapTable \in TableIds \cup {NULL}

\* ------------------------------------------------------------ properties
\* threads inside BuildSwapTableEx that are still filling their new table
Building(th) == pc[th] \in {"b_pass1", "b_pass2", "b_lock"}

\* the reader is inside the locked lookup section of SwapTextures
InLookup == pc[Reader] = "r_slot" /\ rd.built

\* the reader has taken the locked path of this frame and read the pointer
HasLooked == pc[Reader] \in {"r_slot", "r_apply"} /\ rd.built

\* entries of the texture and volume tables that hold texture t
RECURSIVE CountIn(_, _)
CountIn(chain, t) ==
    IF chain = <<>> THEN 0
    ELSE (IF Head(chain).texture = t THEN 1 ELSE 0) + CountIn(Tail(chain), t)

RECURSIVE EntriesFrom(_, _, _)
EntriesFrom(table, t, b) ==
    IF b = HASH_TABLE_SIZE THEN 0
    ELSE CountIn(table[b], t) + EntriesFrom(table, t, b + 1)

Entries(tt, vt, t) == EntriesFrom(tt, t, 0) + EntriesFrom(vt, t, 0)

\* C1: once the built flag is set the published pointer is not null, a
\* reader that took the locked path read a non-null pointer, the table it
\* looks into is live, and a table that a rebuild is still filling is
\* neither the published table nor the table the reader looks into.
C1_NeverNullNeverPartial ==
    /\ g_swapTableBuilt => g_swapTable # NULL
    /\ HasLooked => rd.table # NULL
    /\ InLookup => heap[rd.table].state = "live"
    /\ \A w \in Workers :
         Building(w) => /\ rb[w].new # g_swapTable
                        /\ (InLookup => rb[w].new # rd.table)

\* the reader is looking into the published table while a rebuild has
\* filled part of its new table
C1_Witness ==
    /\ InLookup
    /\ \E w \in Workers : pc[w] = "b_pass2" /\ heap[rb[w].new].map # EmptyMap

\* C2: every texture in the published table, and every texture the reader
\* holds for this frame, has a positive reference count, and the published
\* table has not been deleted, also after a rebuild released the table the
\* reader took its textures from.
C2_HandlesNotDangling ==
    /\ g_swapTable # NULL =>
         /\ heap[g_swapTable].state = "live"
         /\ \A h \in Ids : heap[g_swapTable].map[h] # NULL
                           => refCount[heap[g_swapTable].map[h]] > 0
    /\ pc[Reader] \in {"r_slot", "r_apply"} =>
         \A i \in Slots : rd.tex[i] # NULL => refCount[rd.tex[i]] > 0

\* the reader has left the lock with a texture from a table that a rebuild
\* has since superseded and released
C2_Witness ==
    /\ pc[Reader] = "r_apply" /\ rd.built /\ rd.table # NULL
    /\ heap[rd.table].state = "deleted"
    /\ \E i \in Slots : rd.tex[i] # NULL

\* C3: when a populated table is published and a rebuild that produced no
\* entry passes the emptiness check of lines 143-152, the published pointer,
\* the published table's entries and all reference counts stay as they were.
C3_EmptyRebuildKeepsTable ==
    [][\A w \in Workers :
         (/\ pc[w] = "b_lock" /\ pc'[w] # "b_lock"
          /\ heap[rb[w].new].map = EmptyMap
          /\ g_swapTable # NULL /\ heap[g_swapTable].map # EmptyMap)
         => /\ g_swapTable' = g_swapTable
            /\ heap'[g_swapTable].map = heap[g_swapTable].map
            /\ refCount' = refCount]_vars

\* C4: while the reader is in its lookup section it owns the publish lock,
\* the table it reads is the published one and is live, and no rebuild is
\* between its swap and its release.
C4_SwapAtomicForLookups ==
    InLookup => /\ lockOwner[<<"swap">>] = Reader
                /\ rd.table = g_swapTable
                /\ heap[rd.table].state = "live"
                /\ \A w \in Workers : pc[w] # "b_built"

\* a rebuild that will release the table the reader is looking into waits
\* at the lock
C4_Witness ==
    /\ InLookup
    /\ \E w \in Workers : pc[w] = "b_lock" /\ rb[w].old = rd.table
                          /\ heap[rb[w].new].map # EmptyMap

RECURSIVE SumDone(_)
SumDone(S) ==
    IF S = {} THEN 0
    ELSE LET w == CHOOSE x \in S : TRUE IN tb[w].done + SumDone(S \ {w})

TotalEntries == SumLen(textureTable, 0) + SumLen(pathTable, 0) + SumLen(volumeTable, 0)

InOwnBucket(table) ==
    \A b \in Buckets : \A i \in 1..Len(table[b]) : GetBucketIndex(table[b][i].hash) = b

\* C9: the tables hold exactly one entry per insert the workers have
\* completed, each in the bucket its identifier maps to, whatever the
\* interleaving and also when identifiers share a bucket.
C9_NoLostInsert ==
    /\ TotalEntries = SumDone(Workers)
    /\ InOwnBucket(textureTable) /\ InOwnBucket(pathTable) /\ InOwnBucket(volumeTable)

\* every worker has completed MaxInserts inserts and one bucket's chain
\* holds entries of more than one worker
C9_Witness ==
    /\ \A w \in Workers : tb[w].done = MaxInserts /\ pc[w] = "w_idle"
    /\ \E b \in Buckets : Len(textureTable[b]) > MaxInserts

Finds(w) == pc[w] = "t_find" /\ pc'[w] = "w_idle"

\* C11 as stated: a lookup returns the value of an entry with exactly the
\* requested identifier, and nullptr exactly when the table has no entry
\* with that identifier.
C11_NotFoundIffNoEntry ==
    [][\A w \in Workers :
         Finds(w) => LET vals == MatchVals(tb[w].op, tb[w].hash)
                     IN  /\ tb'[w].res # NULL => tb'[w].res \in vals
                         /\ tb'[w].res = NULL <=> vals = {}]_vars

\* C11 amended: a lookup returns the value of an entry with exactly the
\* requested identifier, never that of another identifier of the bucket;
\* it returns nullptr when the table has no entry with that identifier,
\* and otherwise only for a texture entry that Cleanup has released and
\* nulled (Cleanup leaves the entries in their chains).
C11_ExactMatchOrCleaned ==
    [][\A w \in Workers :
         Finds(w) => LET vals == MatchVals(tb[w].op, tb[w].hash)
                     IN  /\ tb'[w].res \in vals \cup {NULL}
                         /\ vals = {} => tb'[w].res = NULL
                         /\ (tb'[w].res = NULL /\ vals # {})
                            => (tb[w].op # "path" /\ pc[Host] = "h_done"
                                /\ NULL \in vals)]_vars

\* a lookup has returned a value out of a chain whose first entry belongs
\* to another identifier, and a lookup after Cleanup has returned nullptr
\* for an identifier that has an entry
C11_Witness ==
    /\ \E w \in Workers :
          /\ pc[w] = "w_idle" /\ tb[w].get /\ tb[w].res # NULL
          /\ LET chain == TableOf(tb[w].op)[GetBucketIndex(tb[w].hash)]
             IN  chain # <<>> /\ chain[1].hash # tb[w].hash
    /\ \E w \in Workers :
          /\ pc[w] = "w_idle" /\ tb[w].get /\ tb[w].res = NULL
          /\ tb[w].op = "tex" /\ pc[Host] = "h_done"
          /\ MatchVals("tex", tb[w].hash) # {}

\* a worker's insert takes effect in this step
Stores(w) == pc[w] = "t_store" /\ pc'[w] = "w_idle"

\* C12: an insert puts its entry in front of the bucket's chain, so from the
\* step in which an insert of an identifier takes effect a lookup of that
\* identifier yields the inserted value, older entries of the identifier
\* notwithstanding; the insert changes the answer for no other identifier
\* or table, no step of a lookup or of a pending insert changes any answer,
\* and a lookup returns the answer the table gives while it holds the lock.
C12_MostRecentFirst ==
    [][/\ \A w \in Workers :
            Stores(w)
            => /\ TableGet(tb[w].op, tb[w].hash)' = tb[w].val
               /\ LET new == IF tb[w].op = "tex" THEN textureTable'
                             ELSE IF tb[w].op = "path" THEN pathTable'
                             ELSE volumeTable'
                      b   == GetBucketIndex(tb[w].hash)
                  IN  /\ Len(new[b]) = Len(TableOf(tb[w].op)[b]) + 1
                      /\ Tail(new[b]) = TableOf(tb[w].op)[b]
               /\ \A op \in TableOps, h \in TableHashes :
                     (op # tb[w].op \/ h # tb[w].hash)
                     => TableGet(op, h)' = TableGet(op, h)
       /\ ((\A w \in Workers : ~Stores(w)) /\ pc'[Host] = pc[Host])
          => \A op \in TableOps, h \in TableHashes : TableGet(op, h)' = TableGet(op, h)
       /\ \A w \in Workers :
            Finds(w) => tb'[w].res = TableGet(tb[w].op, tb[w].hash)]_vars

\* a lookup has returned the value of the newer of two entries that a
\* chain holds for its identifier
C12_Witness ==
    \E w \in Workers :
       /\ pc[w] = "w_idle" /\ tb[w].get /\ tb[w].res # NULL
       /\ LET chain == TableOf(tb[w].op)[GetBucketIndex(tb[w].hash)]
          IN  \E i, j \in 1..Len(chain) :
                 /\ i < j /\ chain[i].hash = tb[w].hash /\ chain[j].hash = tb[w].hash
                 /\ \A k \in 1..(i - 1) : chain[k].hash # tb[w].hash
                 /\ ValueOf(tb[w].op, chain[i]) = tb[w].res
                 /\ ValueOf(tb[w].op, chain[j]) # tb[w].res

\* the worker is between EnterCriticalSection and LeaveCriticalSection of
\* an insert or a lookup
InBucket(w) == pc[w] \in {"t_link", "t_store", "t_find"}

\* C13: a worker inside an insert or a lookup owns the lock of the bucket
\* (identifier mod bucket count) of the table it works on and no other
\* lock, and outside it owns none; the tables keep the bucket count they
\* were created with; a worker about to enter a bucket can do so whenever
\* no other worker is inside that same bucket of that same table, whatever
\* the other workers do in other buckets.
C13_OnlyOwnBucketLock ==
    /\ \A w \in Workers :
          {l \in Locks : lockOwner[l] = w}
          = IF InBucket(w) THEN {<<tb[w].op, tb[w].hash % HASH_TABLE_SIZE>>} ELSE {}
    /\ DOMAIN textureTable = 0..(HASH_TABLE_SIZE - 1)
    /\ DOMAIN pathTable = 0..(HASH_TABLE_SIZE - 1)
    /\ DOMAIN volumeTable = 0..(HASH_TABLE_SIZE - 1)
    /\ \A w \in Workers :
          (/\ pc[w] = "t_enter"
           /\ \A v \in Workers \ {w} :
                 InBucket(v) => \/ tb[v].op # tb[w].op
                                \/ tb[v].hash % HASH_TABLE_SIZE # tb[w].hash % HASH_TABLE_SIZE)
          => ENABLED TableEnter(w)

\* two workers are inside different buckets of the same table at once, one
\* in an insert and one in a lookup
C13_Witness ==
    \E w, v \in Workers :
       /\ pc[w] \in {"t_link", "t_store"} /\ pc[v] = "t_find"
       /\ tb[w].op = tb[v].op
       /\ tb[w].hash % HASH_TABLE_SIZE # tb[v].hash % HASH_TABLE_SIZE

\* how often a game hash stands in a vector
RECURSIVE Multiplicity(_, _)
Multiplicity(gameHashes, gameHash) ==
    IF gameHashes = <<>> THEN 0
    ELSE (IF Head(gameHashes) = gameHash THEN 1 ELSE 0)
         + Multiplicity(Tail(gameHashes), gameHash)

\* this step is a call of AddMapping on an initialized manager
Adds == tr'.op = "AddMapping" /\ tr'.n = tr.n + 1 /\ m_initialized

\* C14: after AddMapping(c, n) the game hash n stands exactly once in c's
\* vector, and a call for a pair that is already recorded changes neither
\* map, so GetCRC32ByGameHash(n) is what it was after the first call.
C14_AddMappingIdempotent ==
    [][Adds => /\ Multiplicity(GameHashesOf(m_crc32ToGameHash', tr'.crc), tr'.name) = 1
               /\ tr'.found => /\ m_crc32ToGameHash' = m_crc32ToGameHash
                                /\ m_gameHashToCRC32' = m_gameHashToCRC32
                                /\ m_cacheDirty' = m_cacheDirty]_vars

\* AddMapping has been called for a pair that an earlier AddMapping call
\* recorded: the CRC32 has no entry in the loaded cache
C14_Witness ==
    /\ tr.op = "AddMapping" /\ tr.found /\ tr.crc \notin DOMAIN StaticCacheByCRC32
    /\ GetCRC32ByGameHash(tr.name) = tr.crc

\* C15: after AddMapping(c, n) on an initialized manager
\* GetCRC32ByGameHash(n) returns c, whatever n was mapped to before.
C15_LatestMappingWins ==
    [][Adds => (GetCRC32ByGameHash(tr.name))' = tr'.crc]_vars

\* the set of game hashes in a vector
RangeOf(gameHashes) == {gameHashes[i] : i \in 1..Len(gameHashes)}

\* the CRC32 c has been mapped to exactly the two game hashes a and b, and
\* neither has been recorded for another CRC32
MappedTo(c, a, b) ==
    /\ a # b /\ RangeOf(GameHashesOf(m_crc32ToGameHash, c)) = {a, b}
    /\ \A d \in DOMAIN m_crc32ToGameHash \ {c} :
          RangeOf(m_crc32ToGameHash[d]) \cap {a, b} = {}

\* C16: when a CRC32 has been mapped to two game hashes (and these to no
\* other CRC32), GetGameHashByCRC32 of the CRC32 returns one of the two and
\* GetCRC32ByGameHash of either returns the CRC32.
C16_TwoNamesOneContent ==
    \A c \in MgrCrcs, a, b \in MgrNames :
       MappedTo(c, a, b)
       => /\ (tr.op = "GetGameHashByCRC32" /\ tr.crc = c) => tr.res \in {a, b}
          /\ (tr.op = "GetCRC32ByGameHash" /\ tr.name \in {a, b}) => tr.res = c
          /\ GetGameHashByCRC32(c) \in {a, b}
          /\ GetCRC32ByGameHash(a) = c

\* two AddMapping calls have mapped a CRC32 that the loaded cache does not
\* know to two game hashes, and GetGameHashByCRC32 has been asked for it
C16_Witness ==
    \E c \in MgrCrcs \ DOMAIN StaticCacheByCRC32 : \E a, b \in MgrNames :
       /\ MappedTo(c, a, b)
       /\ tr.op = "GetGameHashByCRC32" /\ tr.crc = c /\ tr.res = a

\* a worker counts a loaded file texture, or a loaded archive texture, in
\* this step
CountsFile(w) == pc[w] = "w_count" /\ pc'[w] # "w_count"
CountsTPF(w)  == pc[w] = "w_tpfcount" /\ pc'[w] # "w_tpfcount"

Drained ==
    /\ totalTexturesToLoad > 0 /\ queue = <<>>
    /\ \A w \in Workers : pc[w] = "w_idle"

\* the path entries of the table
PathEntries == {pathTable[b][i] : <<b, i>> \in
                  {x \in Buckets \X (1..3) : x[2] <= Len(pathTable[x[1]])}}

\* C18: once the pipeline has drained, the identifier of every file that
\* was decoded (its path entry carries the CRC32 the worker computed) is
\* found in the table with a live texture, and the identifier of every
\* file that failed is not found, neither in the table nor in a published
\* swap table.
C18_LoadedFoundFailedNot ==
    Drained
    => \A e \in PathEntries :
          IF e.crc32Hash # 0
          THEN GetTexture(e.hash) # NULL /\ refCount[GetTexture(e.hash)] > 0
          ELSE /\ GetTexture(e.hash) = NULL
               /\ g_swapTable # NULL => heap[g_swapTable].map[e.hash] = NULL

\* the pipeline has drained with one of the two files loaded and the other
\* failed, and the path entry of the failed one is still there
C18_Witness ==
    /\ Drained
    /\ \E e, f \in PathEntries :
          /\ e.crc32Hash # 0 /\ GetTexture(e.hash) # NULL
          /\ f.crc32Hash = 0 /\ GetTexture(f.hash) = NULL
          /\ GetTexturePath(f.hash) # NULL

\* C19: no step removes a path entry: every identifier that has a path
\* keeps it, in the hash table's path chains and in the path map of the
\* map-based loaders, also when its load fails.
C19_PathEntryNeverDeleted ==
    [][/\ \A h \in DOMAIN g_texturePathMap : h \in DOMAIN g_texturePathMap'
       /\ \A e \in PathEntries : (GetTexturePath(e.hash))' # NULL]_vars

\* a worker thread is still inside IOCPWorkerThread
Running(w) == pc[w] # "w_exit"

\* C20: ShutdownWorkers sets the stop flag before it posts the first
\* wake-up, has posted one wake-up per worker before it joins, has joined
\* every worker before it closes the port, and releases the device
\* reference only after that: in the step that releases the reference, and
\* from then on, no worker thread is running, and while a worker loads a
\* texture the device is alive.
C20_ReleaseAfterJoin ==
    /\ pc[Host] \in {"s_post", "s_join"} => stopLoading
    /\ pc[Host] = "s_post" => sd.posted < NumWorkers /\ sd.joined = {}
    /\ pc[Host] = "s_join" => sd.posted = NumWorkers
    /\ pc[Host] \in {"s_post", "s_join", "s_close"}
       => (globalDevice # NULL => deviceRef[globalDevice] >= 2)
    /\ pc[Host] \in {"s_close", "s_release", "h_done"}
       => sd.joined = Workers /\ \A w \in Workers : ~Running(w)
    /\ \A w \in sd.joined : ~Running(w)
    /\ \A w \in Workers : pc[w] = "w_load" => deviceRef[wdev[w]] >= 2

\* the reference has been released after a shutdown that found a worker
\* loading and requests still queued
C20_Witness ==
    /\ pc[Host] = "h_done" /\ globalDevice = NULL /\ deviceRef[1] = 1
    /\ sd.posted = NumWorkers
    /\ \E i \in 1..Len(queue) : queue[i].kind = "file"

\* C21: once the stop flag is set every worker leaves its loop and the
\* joins of ShutdownWorkers return; a worker inside a decode/create call
\* finishes it (it goes back to the loop head, never straight out), and at
\* the loop head or on a timeout of the wait a worker that sees the flag
\* leaves at once, without another wait.
C21_WorkersObserveStop ==
    /\ [][\A w \in Workers :
           /\ pc[w] = "w_load" /\ pc'[w] # "w_load" => pc'[w] = "w_idle"
           /\ stopLoading /\ pc[w] = "w_idle" /\ pc'[w] # "w_idle"
              => pc'[w] = "w_exit"
           /\ stopLoading /\ pc[w] = "w_wait" /\ queue = <<>> /\ pc'[w] # "w_wait"
              => pc'[w] = "w_exit"]_vars
    /\ (stopLoading ~> \A w \in Workers : ~Running(w))
    /\ (pc[Host] = "s_post" ~> pc[Host] = "s_close")

\* the flag is set while one worker is inside a load and the other has left
C21_Witness ==
    /\ stopLoading
    /\ \E w \in Workers : pc[w] = "w_load"
    /\ \E w \in Workers : pc[w] = "w_exit"

\* C22: no queued request holds a resolved device, and a worker that
\* begins a load uses the device the global pointer names in that step,
\* whichever device was current when the request was posted.
C22_DeviceResolvedAtExecution ==
    /\ [](\A i \in 1..Len(queue) : queue[i].ppDevice = AddrOfGlobalDevice)
    /\ [][\A w \in Workers :
           pc[w] # "w_load" /\ pc'[w] = "w_load" => wdev'[w] = globalDevice]_vars

\* loading was started once with device 1 and once with device 2; the
\* requests of the second start are all still queued, so the request a
\* worker is loading with device 2 was posted while device 1 was current
C22_Witness ==
    /\ globalDevice = 2
    /\ \E w \in Workers :
         /\ pc[w] = "w_load" /\ wdev[w] = 2
         /\ \A v \in Workers \ {w} : pc[v] # "w_load"
    /\ deviceRef[1] = 2 /\ deviceRef[2] = 3
    /\ Len(queue) = NumWorkers
    /\ \A i \in 1..Len(queue) : queue[i].kind = "file"

\* the archive has a texmod.def that can be extracted
HasManifest(archive) ==
    \E i \in 1..Len(archive) : archive[i].name = "texmod.def" /\ archive[i].ok

\* C23: when LoadTPFAndPostToIOCP is in its second pass or has returned
\* from it, and so whenever a callback has handed over a blob, the first
\* pass is over and the mappings of the archive's texmod.def (none if the
\* archive has no readable one) are all recorded in m_gameHashToCRC32.
C23_ManifestBeforeBlobs ==
    /\ tpf.ddsEntriesPosted > 0 => tpf.phase \in {"pass2", "done"}
    /\ tpf.phase = "pass2" \/ (tpf.phase = "done" /\ tpf.archive # <<>>)
       => tpf.map = (IF HasManifest(tpf.archive) THEN TexmodDef ELSE <<>>)

\* a blob was handed over, the manifest stands behind it in the archive
C23_Witness ==
    /\ tpf.phase = "pass2" /\ tpf.ddsEntriesPosted = 1 /\ queue # <<>>
    /\ tpf.map = TexmodDef
    /\ Len(tpf.archive) = MaxFiles
    /\ tpf.archive[1].name = "dds" /\ tpf.archive[1].ok
    /\ tpf.archive[MaxFiles].name = "texmod.def" /\ tpf.archive[MaxFiles].ok
    /\ ~HasManifest(SubSeq(tpf.archive, 1, MaxFiles - 1))

\* the archive requests the port has accepted (no worker takes any here)
AcceptedTPF == Cardinality({i \in 1..Len(queue) : queue[i].kind = "tpf"})

\* C25: the number LoadTPFAndPostToIOCP returns is the number of requests
\* the queue accepted.
C25_ReturnCountsAccepted ==
    tpf.phase = "done" => tpf.ret = AcceptedTPF

\* every archive blob that was posted is decoded, stored and counted, and
\* the rebuild its completion started is over
DrainedTPF ==
    /\ pc[Host] = "h_run" /\ queue = <<>>
    /\ \A w \in Workers : pc[w] = "w_idle"
    /\ totalTPFTexturesToLoad > 0 /\ tpfTexturesLoaded = totalTPFTexturesToLoad

\* what SwapTextures finds for a hash: the published table's entry, on a
\* miss the hash table under the hash and then under its CRC32; before a
\* table is built the hash table under the hash
ConsumerLookup(hash) ==
    IF g_swapTableBuilt /\ g_swapTable # NULL
    THEN IF heap[g_swapTable].map[hash] # NULL THEN heap[g_swapTable].map[hash]
         ELSE Fallback(hash).tex
    ELSE GetTexture(hash)

\* the archive's blob of a content identifier was posted once
PostedOnce == totalTPFTexturesToLoad = 1

PathIdSet == UNION {{pathTable[b][i].hash : i \in 1..Len(pathTable[b])} : b \in Buckets}

\* the next SetD3DDevice call starts the loading
RestartDue == ENABLED <<SetD3DDevice(1)>>_vars

\* C26: SetD3DDevice starts the loading the first time paths are there,
\* and a step that leaves the set of path identifiers as it is, taken
\* when no start is due, leaves no start due.
C26_RestartIffSetChanged ==
    /\ [](g_pathsLoaded /\ lastTextureCount = 0 /\ PathIdSet # {} => RestartDue)
    /\ [][~RestartDue /\ PathIdSet' = PathIdSet => ~RestartDue']_vars

\* the loading that followed the last re-scan has been started and every
\* request of it is loaded and counted
DrainedRescan ==
    /\ hookCallCount > 0 /\ lastTextureCount = CountTexturePaths
    /\ queue = <<>> /\ \A w \in Workers : pc[w] = "w_idle"
    /\ totalTexturesToLoad > 0 /\ texturesLoaded = totalTexturesToLoad

\* the game hashes BuildSwapTableEx walks over
ValidSet == {ValidGameHashes[i] : i \in 1..Len(ValidGameHashes)}

\* C27: when the loading that follows a re-scan has completed, the
\* published table has been rebuilt and holds, for every re-scanned path
\* whose identifier the game uses, the texture now in the hash table.
C27_RescanRebuilds ==
    DrainedRescan
    => \A h \in PathIdSet \cap ValidSet :
          GetTexture(h) # NULL
          => g_swapTable # NULL /\ heap[g_swapTable].map[h] = GetTexture(h)

C31_RebuildTriggeredOnce ==
    \A w \in Workers :
       pc[w] = "b_check"
       => /\ g_swapTable = NULL /\ ~g_swapTableBuilt
          /\ \A v \in Workers \ {w} : rb[v] = NoRb

\* the worker threads run as long as the process does: a worker that can
\* take a step takes one
WorkerStep(w) ==
    \/ WorkerDecodeOk(w) \/ WorkerDecodeFail(w) \/ WorkerAddTexture(w)
    \/ WorkerAddMapped(w) \/ WorkerCountFile(w) \/ WorkerCountTPF(w)
    \/ WorkerTPFDone(w) \/ BuildCheck(w) \/ BuildNew(w) \/ BuildPass1(w)
    \/ BuildPass2(w) \/ BuildSwap(w) \/ BuildRelease(w)

SpecFair == Spec /\ \A w \in Workers : WF_vars(WorkerStep(w))

\* every job submitted in the session has been processed
AllProcessed ==
    /\ totalTexturesToLoad > 0 /\ queue = <<>>
    /\ \A w \in Workers : pc[w] = "w_idle"

\* C32: once every job of the session has been processed, a rebuild pass
\* is eventually triggered and publishes a table.
C32_ProcessedLeadsToRebuild ==
    AllProcessed ~> (g_swapTableBuilt /\ g_swapTable # NULL)

\* C33: with two passes running concurrently, a pass about to release its
\* superseded table finds it not yet freed, the published table is never a
\* freed one nor one still under construction, and once no pass is running
\* every table that was superseded has been freed: only the published
\* table is left alive.
C33_ConcurrentPassesFreeOnce ==
    /\ \A w \in Workers :
          pc[w] = "b_built" /\ rb[w].old # NULL => heap[rb[w].old].state = "live"
    /\ g_swapTable # NULL => heap[g_swapTable].state = "live"
    /\ \A w \in Workers :
          pc[w] \in {"b_pass1", "b_pass2", "b_lock"} => g_swapTable # rb[w].new
    /\ (\A w \in Workers : rb[w] = NoRb)
       => \A p \in TableIds : heap[p].state = "live" => p = g_swapTable

\* ------------------------------------------------- the locks, call by call
\* every call is the sequence of EnterCriticalSection / LeaveCriticalSection
\* operations it makes, in program order
Enter(l) == [op |-> "enter", lock |-> l]
Leave(l) == [op |-> "leave", lock |-> l]

\* TextureHashTable::GetTexture and AddTexture: the bucket's lock
GetTextureOps(hash) ==
    <<Enter(<<"tex", GetBucketIndex(hash)>>), Leave(<<"tex", GetBucketIndex(hash)>>)>>
\* TextureHashTable::SetCRC32Hash: the path bucket's lock
SetCRC32HashOps(hash) ==
    <<Enter(<<"path", GetBucketIndex(hash)>>), Leave(<<"path", GetBucketIndex(hash)>>)>>
\* CRC32Manager::GetCRC32ByGameHash: the manager's lock
GetCRC32Ops == <<Enter(<<"mgr">>), Leave(<<"mgr">>)>>
\* D3DXCreateTextureFromFile(InMemory) under d3dxMutex
DecodeOps == <<Enter(<<"d3dx">>), Leave(<<"d3dx">>)>>

RECURSIVE Flatten(_)
Flatten(seqs) == IF seqs = <<>> THEN <<>> ELSE Head(seqs) \o Flatten(Tail(seqs))

\* the game hashes of the archive's manifest, in map order
TexmodKeys == SetToSeq(DOMAIN TexmodDef)

\* the publish lock entered before crc32MapLock is left
BuildOpsSwapInsideMap ==
    Flatten([i \in 1..Len(ValidGameHashes) |-> GetTextureOps(ValidGameHashes[i])])
    \o <<Enter(<<"crc32map">>)>>
    \o Flatten([i \in 1..Len(TexmodKeys) |->
                  GetTextureOps(TexmodKeys[i]) \o GetTextureOps(TexmodDef[TexmodKeys[i]])])
    \o <<Enter(<<"swap">>), Leave(<<"swap">>), Leave(<<"crc32map">>)>>

\* BuildSwapTableEx: GetTexture per valid game hash; under crc32MapLock
\* GetTexture by game hash and by CRC32 per pair of the map; then the
\* publish lock around the swap and the release
BuildOps ==
    Flatten([i \in 1..Len(ValidGameHashes) |-> GetTextureOps(ValidGameHashes[i])])
    \o <<Enter(<<"crc32map">>)>>
    \o Flatten([i \in 1..Len(TexmodKeys) |->
                  GetTextureOps(TexmodKeys[i]) \o GetTextureOps(TexmodDef[TexmodKeys[i]])])
    \o <<Leave(<<"crc32map">>)>>
    \o <<Enter(<<"swap">>), Leave(<<"swap">>)>>

\* the file branch of the worker; the last load of the session builds
FileJobOps(hash, last) ==
    DecodeOps \o SetCRC32HashOps(hash) \o GetTextureOps(hash)
    \o (IF last THEN BuildOps ELSE <<>>)

\* the archive branch of the worker: AddTexture by CRC32, under
\* crc32MapLock AddTexture per mapped game hash, under rebuildLock the
\* counters and, for the last blob, the build
TPFJobOps(crc, last) ==
    DecodeOps \o GetTextureOps(crc)
    \o <<Enter(<<"crc32map">>)>>
    \o Flatten([i \in 1..Len(Crc32ToGameHashes(crc)) |->
                  GetTextureOps(Crc32ToGameHashes(crc)[i])])
    \o <<Leave(<<"crc32map">>)>>
    \o <<Enter(<<"rebuild">>)>> \o (IF last THEN BuildOps ELSE <<>>)
    \o <<Leave(<<"rebuild">>)>>

\* one slot of SwapTextures on a miss in the published table: GetTexture,
\* GetCRC32ByGameHash, GetTexture by the CRC32; a debug build then reads
\* the game hash map under crc32MapLock and repeats the lookups
SlotOps(hash, debug) ==
    GetTextureOps(hash) \o GetCRC32Ops \o GetTextureOps(GetCRC32ByGameHash(hash))
    \o (IF debug
        THEN <<Enter(<<"crc32map">>), Leave(<<"crc32map">>)>> \o GetCRC32Ops
             \o GetTextureOps(hash)
        ELSE <<>>)

\* SwapTextures once the table is built: the publish lock around the slots
SwapOps(hs, debug) ==
    <<Enter(<<"swap">>)>>
    \o Flatten([i \in 1..3 |-> IF hs[i] # 0 THEN SlotOps(hs[i], debug) ELSE <<>>])
    \o <<Leave(<<"swap">>)>>

\* the calls a thread can make
CallOps(th) ==
    IF th \in Workers
    THEN {FileJobOps(h, last) : h \in PathIds, last \in BOOLEAN}
         \cup {TPFJobOps(c, last) : c \in TPFIds, last \in BOOLEAN}
    ELSE IF th = Reader
    THEN {SwapOps(hs, debug) : hs \in FrameHashes, debug \in BOOLEAN}
    ELSE {}

lockUnchanged ==
    UNCHANGED <<g_pathsLoaded, tableVars, refCount, nextTex, swapVars, mapVars,
                queue, countVars, pc, job, wtex, rb, readerVars, tb, g_textureMap,
                mgrVars, carbonVars, stopVars, tpf, lastTextureCount, hookCallCount,
                pool, sl>>

\* the thread starts a call
LockStart(th) ==
    /\ lp[th] = <<>>
    /\ \E ops \in CallOps(th) : lp' = [lp EXCEPT ![th] = ops]
    /\ UNCHANGED lockOwner
    /\ lockUnchanged

\* EnterCriticalSection returns once the lock is free
LockEnter(th) ==
    /\ lp[th] # <<>> /\ Head(lp[th]).op = "enter"
    /\ LockFree(Head(lp[th]).lock)
    /\ lockOwner' = [lockOwner EXCEPT ![Head(lp[th]).lock] = th]
    /\ lp' = [lp EXCEPT ![th] = Tail(@)]
    /\ lockUnchanged

\* LeaveCriticalSection
LockLeave(th) ==
    /\ lp[th] # <<>> /\ Head(lp[th]).op = "leave"
    /\ lockOwner' = [lockOwner EXCEPT ![Head(lp[th]).lock] = NoThread]
    /\ lp' = [lp EXCEPT ![th] = Tail(@)]
    /\ lockUnchanged

NextLocks ==
    \/ \E th \in Workers \cup {Reader} : LockStart(th)
    \/ \E th \in Workers \cup {Reader} : LockEnter(th)
    \/ \E th \in Workers \cup {Reader} : LockLeave(th)

SpecLocks == Init /\ [][NextLocks]_vars

\* a critical section that is released again and again is eventually
\* obtained by every thread waiting for it; a thread that holds a lock
\* goes on to leave it
LocksFairness ==
    \A th \in Workers \cup {Reader} :
       SF_vars(LockEnter(th)) /\ WF_vars(LockLeave(th))

SpecLocksFair == SpecLocks /\ LocksFairness

\* the thread waits for a lock another thread owns
Blocked(th) ==
    /\ lp[th] # <<>> /\ Head(lp[th]).op = "enter"
    /\ ~LockFree(Head(lp[th]).lock)

\* the order in which the code nests its locks
Rank(l) ==
    IF l = <<"rebuild">> THEN 1
    ELSE IF l = <<"swap">> THEN 2
    ELSE IF l = <<"crc32map">> THEN 3
    ELSE 4

Held(th) == {l \in Locks : lockOwner[l] = th}

BuildingTable(th) == pc[th] \in {"b_check", "b_new", "b_pass1", "b_pass2", "b_lock"}

\* the render thread's next step looks the slot's hash up in the hash
\* table and the CRC32 manager: the published table has no entry for it
ReaderLooksUp ==
    /\ pc[Reader] = "r_slot" /\ rd.built
    /\ heap[rd.table].map[rd.hash[rd.slot]] = NULL

C36_MapsConsistent ==
    \A n \in MgrNames : \A c \in MgrCrcs :
       Found(GameHashesOf(m_crc32ToGameHash, c), n) <=> GetCRC32ByGameHash(n) = c

\* the references on a device that StartIOCPLoading took and that have not
\* been released: the game's own reference and the one a worker holds
\* around a load in progress are not counted
StartRefs(d) == deviceRef[d] - 1 - Cardinality({w \in Workers : wdev[w] = d})

\* C38: the references StartIOCPLoading has taken and not given back are
\* at most one, on the stored device, and none once ShutdownWorkers has
\* released the device.
C38_OneDeviceReference ==
    /\ \A d \in Devices : StartRefs(d) = IF d = globalDevice THEN 1 ELSE 0
    /\ pc[Host] = "h_done" => \A d \in Devices : StartRefs(d) = 0

\* ------------------------------------------- the path entry's CRC32
\* the worker's step that calls SetCRC32Hash: a file request was decoded
CallsSetCRC32Hash(w) ==
    pc[w] = "w_idle" /\ pc'[w] = "w_add" /\ job'[w].kind = "file"

\* the positions of the entries with that hash in a chain
Matches(chain, hash) == {i \in 1..Len(chain) : chain[i].hash = hash}

\* the entry the loop of SetCRC32Hash stops at: the first with that hash
FirstMatch(chain, hash) ==
    CHOOSE i \in Matches(chain, hash) : \A j \in Matches(chain, hash) : i <= j

\* the call leaves the other fields of its entry, and every other entry,
\* as they were
OnlyCRC32Written(w) ==
    \A b \in Buckets :
       /\ Len(pathTable'[b]) = Len(pathTable[b])
       /\ \A i \in 1..Len(pathTable[b]) :
             /\ pathTable'[b][i].hash = pathTable[b][i].hash
             /\ pathTable'[b][i].path = pathTable[b][i].path
             /\ (b # GetBucketIndex(job'[w].hash)
                 \/ i # FirstMatch(pathTable[b], job'[w].hash))
                => pathTable'[b][i] = pathTable[b][i]

\* the entry the call writes to has no CRC32 yet
WrittenWhileUnset(w) ==
    LET chain == pathTable[GetBucketIndex(job'[w].hash)]
    IN  Matches(chain, job'[w].hash) # {} =>
           chain[FirstMatch(chain, job'[w].hash)].crc32Hash = 0

\* C39: the CRC32 of a path entry is set at most once, from unset to the
\* CRC32 computed when its file is loaded, and SetCRC32Hash changes no
\* other field of the entry and no other entry.
C39_MutatedOnce ==
    [][\A w \in Workers : CallsSetCRC32Hash(w) =>
          OnlyCRC32Written(w) /\ WrittenWhileUnset(w)]_vars

\* ------------------------------------------- what texturesLoaded counts
\* the step is a worker counting the file request it holds
CountsFileJob(w) ==
    pc[w] # pc'[w] /\ job[w].kind = "file"

\* C40: texturesLoaded, which is compared with totalTexturesToLoad, is
\* advanced only by file requests of the current StartIOCPLoading call:
\* a TPF request never advances it, and with only this call's file
\* requests counted it never exceeds the total of the call.
C40_CountsCurrentFileJobs ==
    [][/\ texturesLoaded' = texturesLoaded + 1 =>
             \E w \in Workers : CountsFileJob(w)
       /\ texturesLoaded' <= totalTexturesToLoad']_vars

====
